---- MODULE Spec2Model ----
(***************************************************************************)
(* Roo Pilot CLI: the configuration resolver and the command dispatcher of *)
(* the three CLI programs of the repository,                               *)
(*   "roo"    src/roo-pilot-cli/roo-cli.ts                                 *)
(*   "full"   src/roo-pilot-cli/run-full-cli.js                            *)
(*   "simple" src/unnamed/part_002 (the simple CLI, from its line 29 on)   *)
(* which share one persisted file, ~/.roo-pilot/config.json.               *)
(*                                                                         *)
(* JavaScript strings are TLA+ strings (TLC evaluates Len, SubSeq and \o   *)
(* on them).  Numbers are kept as their canonical decimal text ("4096",    *)
(* "0.3", "NaN"), booleans as "true"/"false", null as "null", so that a    *)
(* configuration is a function from field names to strings.  An unset      *)
(* environment variable is the empty string (every read of the code is a   *)
(* truthiness test or `|| ''`).                                            *)
(***************************************************************************)
EXTENDS Integers, Sequences, FiniteSets, TLC

VARIABLES
  variant,       \* which of the three programs is running
  env,           \* process.env: variable name -> value ("" when unset)
  file,          \* ~/.roo-pilot/config.json: [kind, doc]
  config,        \* the in-memory configuration
  chatHistory,   \* the chat history: sequence of [role, content]
  pc,            \* "start", "awaiting", "processing", "confirmCommand", "exited"
  out,           \* what the last handler printed: one string per console call
  disk,          \* the workspace file system: path -> node
  pendingSwitch, \* run-full-cli.js: provider of the getAvailableModels().then not yet run
  cachedModels,  \* run-full-cli.js: provider -> cached model names (<<>>: none)
  lastLoad,      \* the last load: the file it found, what its migration step did
  lastInput,     \* the input line handled last ("" before the first)
  loads,         \* number of process starts so far
  turn,          \* the chat turn in progress or last completed: the locals of its handler
  menu,          \* the model menu of /models: [state, provider, models]
  exit,          \* what ended the process: "", "command", "SIGINT" or "SIGTERM"
  executed,      \* the commands given to execSync so far, in order
  suspended      \* older chat-line handlers that still wait: sequence of [pc, turn]

vars == <<variant, env, file, config, chatHistory, pc, out, disk,
          pendingSwitch, cachedModels, lastLoad, lastInput, loads, turn,
          menu, exit, executed, suspended>>

----------------------------------------------------------------------------
(* Bounds *)

\* process starts (first run, then fresh loads of the file)
MaxLoads == 2
\* chat history entries after which no further input is fed
MaxHistory == 2
\* chat-line handlers kept aside while a later line is handled
MaxSuspended == 1
\* commands run at the execution prompt after which no further chat line is fed
MaxExecuted == 1

----------------------------------------------------------------------------
(* JavaScript string primitives *)

IsSpace(c) == c \in {" ", "\n", "\t"}

CharAt(s, i) == SubSeq(s, i, i)

\* s.slice(n)
Slice(s, n) == SubSeq(s, n + 1, Len(s))

\* s.substring(n): as slice, with n clipped to the length
Substring(s, n) == IF n >= Len(s) THEN "" ELSE SubSeq(s, n + 1, Len(s))

\* s.startsWith(p)
StartsWith(s, p) == Len(s) >= Len(p) /\ SubSeq(s, 1, Len(p)) = p

RECURSIVE TrimLeft(_)
TrimLeft(s) == IF s # "" /\ IsSpace(CharAt(s, 1)) THEN TrimLeft(Slice(s, 1)) ELSE s

RECURSIVE TrimRight(_)
TrimRight(s) ==
  IF s # "" /\ IsSpace(CharAt(s, Len(s))) THEN TrimRight(SubSeq(s, 1, Len(s) - 1)) ELSE s

\* s.trim()
Trim(s) == TrimRight(TrimLeft(s))

\* index of the first occurrence of character c in s at or after i, 0 if none
RECURSIVE IndexFrom(_, _, _)
IndexFrom(s, c, i) ==
  IF i > Len(s) THEN 0
  ELSE IF CharAt(s, i) = c THEN i ELSE IndexFrom(s, c, i + 1)

\* s.includes(c) for a single character c
Includes(s, c) == IndexFrom(s, c, 1) # 0

\* s.split(sep) for a single character sep
RECURSIVE Split(_, _)
Split(s, sep) ==
  LET i == IndexFrom(s, sep, 1)
  IN IF i = 0 THEN <<s>>
     ELSE <<SubSeq(s, 1, i - 1)>> \o Split(Slice(s, i), sep)

\* parts.join(sep)
RECURSIVE Join(_, _)
Join(parts, sep) ==
  IF parts = <<>> THEN ""
  ELSE IF Len(parts) = 1 THEN parts[1]
  ELSE parts[1] \o sep \o Join(Tail(parts), sep)

Upper == "ABCDEFGHIJKLMNOPQRSTUVWXYZ"
Lower == "abcdefghijklmnopqrstuvwxyz"

\* s.toLowerCase()
RECURSIVE ToLower(_)
ToLower(s) ==
  IF s = "" THEN ""
  ELSE LET c == CharAt(s, 1)
           i == IndexFrom(Upper, c, 1)
       IN (IF i = 0 THEN c ELSE CharAt(Lower, i)) \o ToLower(Slice(s, 1))

\* JavaScript truthiness of a string
Truthy(v) == v # ""

SeqContains(seq, x) == \E i \in 1..Len(seq) : seq[i] = x

\* the lines a terminal shows for the console calls in `printed`
RECURSIVE Lines(_)
Lines(printed) ==
  IF printed = <<>> THEN <<>> ELSE Split(Head(printed), "\n") \o Lines(Tail(printed))

----------------------------------------------------------------------------
(* Reference data *)

Variants == {"roo", "full", "simple"}

\* the providers `/config apiProvider=` accepts
Providers(v) ==
  IF v = "roo"
    THEN <<"anthropic", "openai", "openrouter", "bedrock", "gemini", "mistral", "groq">>
    ELSE <<"groq", "anthropic", "openai", "mistral">>

\* the API-key variable the .env template names for a provider
EnvVarOf(p) ==
  CASE p = "anthropic"  -> "ANTHROPIC_API_KEY"
    [] p = "openai"     -> "OPENAI_API_KEY"
    [] p = "openrouter" -> "OPENROUTER_API_KEY"
    [] p = "gemini"     -> "GOOGLE_API_KEY"
    [] p = "mistral"    -> "MISTRAL_API_KEY"
    [] p = "groq"       -> "GROQ_API_KEY"
    [] OTHER            -> "AWS_ACCESS_KEY_ID"

KeyVars == {"ANTHROPIC_API_KEY", "OPENAI_API_KEY", "OPENROUTER_API_KEY",
            "GOOGLE_API_KEY", "MISTRAL_API_KEY", "GROQ_API_KEY"}

EnvVars == KeyVars \cup {"DISABLE_AUTO_UPGRADE"}

\* roo-cli.ts getProviderModelsMetadata(provider).map(m => m.name)
RooModels(provider) ==
  CASE provider = "anthropic" ->
         <<"claude-3-7-sonnet-20240229", "claude-3-5-sonnet-20240620",
           "claude-3-opus-20240229", "claude-3-haiku-20240307">>
    [] provider = "openai" ->
         <<"gpt-4o", "gpt-4o-mini", "gpt-4-turbo", "gpt-3.5-turbo">>
    [] provider = "openrouter" ->
         <<"anthropic/claude-3-7-sonnet", "anthropic/claude-3-opus", "openai/gpt-4o",
           "mistral/mistral-large", "meta-llama/llama-3-70b-instruct">>
    [] provider = "bedrock" ->
         <<"anthropic.claude-3-7-sonnet-20240229", "anthropic.claude-3-opus-20240229",
           "anthropic.claude-3-haiku-20240307">>
    [] provider = "gemini" -> <<"gemini-1.5-pro", "gemini-1.5-flash">>
    [] provider = "mistral" ->
         <<"mistral-large-latest", "mistral-medium-latest", "mistral-small-latest">>
    [] provider = "groq" ->
         <<"llama3-3-70b-versatile", "llama3-70b-8192", "llama3-8b-8192",
           "mixtral-8x7b-32768", "gemma-7b-it", "claude-3-5-sonnet-20240620">>
    [] OTHER -> <<>>

\* run-full-cli.js getFallbackModelsMetadata(provider).map(m => m.name)
FallbackModels(provider) ==
  CASE provider = "anthropic" ->
         <<"claude-3-7-sonnet-20240229", "claude-3-5-sonnet-20240620",
           "claude-3-opus-20240229", "claude-3-haiku-20240307">>
    [] provider = "openai" ->
         <<"gpt-4o", "gpt-4o-mini", "gpt-4-turbo", "gpt-3.5-turbo">>
    [] provider = "mistral" ->
         <<"mistral-large-latest", "mistral-medium-latest", "mistral-small-latest">>
    [] provider = "groq" ->
         <<"llama-3.3-70b-versatile", "llama3-70b-8192", "llama3-8b-8192",
           "mixtral-8x7b-32768", "gemma-7b-it", "claude-3-5-sonnet-20240620">>
    [] OTHER -> <<>>

\* the model list a program knows for a provider without asking the network
KnownModels(v, provider) == IF v = "roo" THEN RooModels(provider) ELSE FallbackModels(provider)

\* run-full-cli.js MCP_MODES
MCP_MODES == {"assistant", "code", "sql", "data", "explain"}

----------------------------------------------------------------------------
(* Configuration documents *)

\* DEFAULT_CONFIG of each program, evaluated at module load under environment e
DEFAULT_CONFIG(v, e) ==
  CASE v = "roo" ->
         [apiProvider |-> "anthropic", apiKey |-> e["ANTHROPIC_API_KEY"],
          model |-> "claude-3-7-sonnet-20240229", temperature |-> "0.3",
          maxTokens |-> "4096", mode |-> "assistant", workspacePath |-> ".",
          isVisionEnabled |-> "false", checkMcpOnStart |-> "false"]
    [] v = "full" ->
         [apiProvider |-> "groq", apiKey |-> e["GROQ_API_KEY"],
          model |-> "llama-3.3-70b-versatile", temperature |-> "0.3",
          maxTokens |-> "4096", workspacePath |-> ".", isVisionEnabled |-> "false",
          mode |-> "assistant", mcpServerAddress |-> "http://localhost:3000",
          checkMcpOnStart |-> "false"]
    [] OTHER ->
         [apiProvider |-> "anthropic", apiKey |-> e["ANTHROPIC_API_KEY"],
          model |-> "claude-3-7-sonnet-20240229", temperature |-> "0.3",
          maxTokens |-> "4096", mode |-> "assistant", workspacePath |-> "."]

\* { ...a, ...b }
Merge(a, b) ==
  [k \in (DOMAIN a) \cup (DOMAIN b) |-> IF k \in DOMAIN b THEN b[k] ELSE a[k]]

\* obj with obj[k] = v assigned
Assign(obj, k, v) == Merge(obj, [x \in {k} |-> v])

\* JSON.parse(JSON.stringify(doc)): NaN is written as null
JsonRoundTrip(doc) == [k \in DOMAIN doc |-> IF doc[k] = "NaN" THEN "null" ELSE doc[k]]

NoDoc == [apiProvider |-> ""]
AbsentFile == [kind |-> "absent", doc |-> NoDoc]
MalformedFile == [kind |-> "malformed", doc |-> NoDoc]

\* fs.writeFileSync(CONFIG_FILE, JSON.stringify(c, null, 2))
Written(c) == [kind |-> "json", doc |-> JsonRoundTrip(c)]

----------------------------------------------------------------------------
(* Configuration resolver: roo-cli.ts *)

\* the result of a load: configuration, file, console output, the provider whose
\* model list is still being fetched, and what the migration step did
LoadResult(c, f, o, p, m) ==
  [config |-> c, file |-> f, out |-> o, pending |-> p, migration |-> m]

NoMigration == [ran |-> FALSE, model |-> "", saves |-> 0, file |-> AbsentFile]

\* initializeConfig, branch !fs.existsSync(CONFIG_FILE)
RooFirstRun(e) ==
  LET d == DEFAULT_CONFIG("roo", e)
      chosen(var, p, m) == Merge(d, [apiKey |-> e[var], apiProvider |-> p, model |-> m])
  IN IF Truthy(e["ANTHROPIC_API_KEY"])
       THEN Merge(d, [apiKey |-> e["ANTHROPIC_API_KEY"], apiProvider |-> "anthropic"])
     ELSE IF Truthy(e["OPENAI_API_KEY"])
       THEN chosen("OPENAI_API_KEY", "openai", "gpt-4o")
     ELSE IF Truthy(e["OPENROUTER_API_KEY"])
       THEN chosen("OPENROUTER_API_KEY", "openrouter", "anthropic/claude-3-7-sonnet")
     ELSE IF Truthy(e["MISTRAL_API_KEY"])
       THEN chosen("MISTRAL_API_KEY", "mistral", "mistral-large-latest")
     ELSE IF Truthy(e["GROQ_API_KEY"])
       THEN chosen("GROQ_API_KEY", "groq", "llama3-70b-8192")
     ELSE d

\* migrateModelNames, the groq block: the model id after its three rewrites
RooMigrateGroq(model, e) ==
  LET m1 == IF model = "llama-3-70b-8192" THEN "llama3-70b-8192" ELSE model
      m2 == IF m1 \in {"llama-3-3-70b-versatile", "llama-3.3-70b-versatile"}
              THEN "llama3-3-70b-versatile" ELSE m1
  IN IF m2 = "llama3-70b-8192" /\ ~Truthy(e["DISABLE_AUTO_UPGRADE"])
       THEN "llama3-3-70b-versatile" ELSE m2

\* migrateModelNames, the anthropic block
RooMigrateAnthropic(model, e) ==
  IF model = "claude-3-sonnet-20240229" /\ ~Truthy(e["DISABLE_AUTO_UPGRADE"])
    THEN "claude-3-7-sonnet-20240229" ELSE model

\* migrateModelNames: the configuration after it, and whether it saved
migrateModelNames(c, e) ==
  LET m == IF c.apiProvider = "groq" THEN RooMigrateGroq(c.model, e)
           ELSE IF c.apiProvider = "anthropic" THEN RooMigrateAnthropic(c.model, e)
           ELSE c.model
  IN [config |-> Assign(c, "model", m), configChanged |-> m # c.model]

\* a faulty override: the first API-key variable that is set wins, whatever the
\* configured provider (what the first-run branch does)
RooEnvOverrideAnyKey(c, e) ==
  IF Truthy(e["ANTHROPIC_API_KEY"]) THEN Assign(c, "apiKey", e["ANTHROPIC_API_KEY"])
  ELSE IF Truthy(e["OPENAI_API_KEY"]) THEN Assign(c, "apiKey", e["OPENAI_API_KEY"])
  ELSE IF Truthy(e["OPENROUTER_API_KEY"]) THEN Assign(c, "apiKey", e["OPENROUTER_API_KEY"])
  ELSE IF Truthy(e["MISTRAL_API_KEY"]) THEN Assign(c, "apiKey", e["MISTRAL_API_KEY"])
  ELSE IF Truthy(e["GROQ_API_KEY"]) THEN Assign(c, "apiKey", e["GROQ_API_KEY"])
  ELSE c

\* initializeConfig, the environment override of the else branch
RooEnvOverride(c, e) ==
  IF Truthy(e["ANTHROPIC_API_KEY"]) /\ c.apiProvider = "anthropic"
    THEN Assign(c, "apiKey", e["ANTHROPIC_API_KEY"])
  ELSE IF Truthy(e["OPENAI_API_KEY"]) /\ c.apiProvider = "openai"
    THEN Assign(c, "apiKey", e["OPENAI_API_KEY"])
  ELSE IF Truthy(e["OPENROUTER_API_KEY"]) /\ c.apiProvider = "openrouter"
    THEN Assign(c, "apiKey", e["OPENROUTER_API_KEY"])
  ELSE IF Truthy(e["MISTRAL_API_KEY"]) /\ c.apiProvider = "mistral"
    THEN Assign(c, "apiKey", e["MISTRAL_API_KEY"])
  ELSE IF Truthy(e["GROQ_API_KEY"]) /\ c.apiProvider = "groq"
    THEN Assign(c, "apiKey", e["GROQ_API_KEY"])
  ELSE c

\* initializeConfig of roo-cli.ts; cur is the module-level `config` (DEFAULT_CONFIG)
RooInitializeConfig(cur, f, e) ==
  IF f.kind = "absent" THEN
    LET c == RooFirstRun(e) IN LoadResult(c, Written(c), <<>>, "", NoMigration)
  ELSE IF f.kind = "malformed" THEN
    LoadResult(cur, f, <<"Error reading config file:", "Using default configuration">>,
               "", NoMigration)
  ELSE
    LET merged == Merge(DEFAULT_CONFIG("roo", e), f.doc)
        mig    == migrateModelNames(merged, e)
        f2     == IF mig.configChanged THEN Written(mig.config) ELSE f
        o      == IF mig.configChanged
                    THEN <<"Model upgraded to: " \o mig.config.model>> ELSE <<>>
    IN LoadResult(RooEnvOverride(mig.config, e), f2, o, "",
                  [ran |-> TRUE, model |-> mig.config.model,
                   saves |-> IF mig.configChanged THEN 1 ELSE 0, file |-> f2])

----------------------------------------------------------------------------
(* Configuration resolver: run-full-cli.js *)

FullKeyProviders == <<"groq", "anthropic", "openai", "mistral">>

\* detectApiKeys().keys
ApiKeys(e) ==
  [groq |-> e["GROQ_API_KEY"], anthropic |-> e["ANTHROPIC_API_KEY"],
   openai |-> e["OPENAI_API_KEY"], mistral |-> e["MISTRAL_API_KEY"]]

\* apiKeys.keys[provider]: undefined (falsy) for a provider without an entry
KeyOf(e, provider) == IF provider \in DOMAIN ApiKeys(e) THEN ApiKeys(e)[provider] ELSE ""

\* detectApiKeys().available
detectApiKeys(e) ==
  SelectSeq(FullKeyProviders,
            LAMBDA p : Truthy(ApiKeys(e)[p]) /\ Trim(ApiKeys(e)[p]) # "")

\* the switch (provider) of the first-run branch
FullDefaultModel(provider) ==
  CASE provider = "groq"      -> "llama-3.3-70b-versatile"
    [] provider = "anthropic" -> "claude-3-7-sonnet-20240229"
    [] provider = "openai"    -> "gpt-4o"
    [] OTHER                  -> "mistral-large-latest"

\* initializeConfig, branch !fs.existsSync(CONFIG_FILE)
FullFirstRun(e) ==
  LET d == DEFAULT_CONFIG("full", e)
      available == detectApiKeys(e)
      use(p) == Merge(d, [apiProvider |-> p, apiKey |-> ApiKeys(e)[p],
                          model |-> FullDefaultModel(p)])
  IN IF Len(available) = 0 THEN d
     ELSE IF Len(available) = 1 THEN use(available[1])
     ELSE IF Truthy(ApiKeys(e).groq) THEN use("groq")
     ELSE IF Truthy(ApiKeys(e).anthropic) THEN use("anthropic")
     ELSE IF Truthy(ApiKeys(e).openai) THEN use("openai")
     ELSE IF Truthy(ApiKeys(e).mistral) THEN use("mistral")
     ELSE d

\* a faulty migration: only the first rewrite of a load is applied
FullMigrateOneStep(c) ==
  LET m1 == IF c.apiProvider = "groq" /\ c.model = "llama-3-70b-8192"
              THEN "llama3-70b-8192"
            ELSE IF c.apiProvider = "groq" /\ c.model = "llama3-70b-8192"
              THEN "llama-3.3-70b-versatile" ELSE c.model
  IN [config |-> Assign(c, "model", m1), saves |-> IF m1 # c.model THEN 1 ELSE 0]

\* initializeConfig, "Fix legacy model names": the two rewrites, each with its save
FullMigrate(c) ==
  LET m1 == IF c.apiProvider = "groq" /\ c.model = "llama-3-70b-8192"
              THEN "llama3-70b-8192" ELSE c.model
      m2 == IF c.apiProvider = "groq" /\ m1 = "llama3-70b-8192"
              THEN "llama-3.3-70b-versatile" ELSE m1
  IN [config |-> Assign(c, "model", m2),
      saves  |-> (IF m1 # c.model THEN 1 ELSE 0) + (IF m2 # m1 THEN 1 ELSE 0)]

\* initializeConfig of run-full-cli.js
FullInitializeConfig(f, e) ==
  IF f.kind = "absent" THEN
    LET c == FullFirstRun(e) IN LoadResult(c, Written(c), <<>>, "", NoMigration)
  ELSE IF f.kind = "malformed" THEN
    LoadResult(DEFAULT_CONFIG("full", e), f,
               <<"Error reading config file:", "Using default configuration">>,
               "", NoMigration)
  ELSE
    LET merged    == Merge(DEFAULT_CONFIG("full", e), f.doc)
        available == detectApiKeys(e)
        mig       == FullMigrate(merged)
        f2        == IF mig.saves > 0 THEN Written(mig.config) ELSE f
        m         == [ran |-> TRUE, model |-> mig.config.model, saves |-> mig.saves,
                      file |-> f2]
    IN IF ~Truthy(KeyOf(e, mig.config.apiProvider)) /\ Len(available) > 0 THEN
         LoadResult(Merge(mig.config, [apiProvider |-> available[1],
                                       apiKey |-> ApiKeys(e)[available[1]]]),
                    f2, <<"No API key found for " \o mig.config.apiProvider>>,
                    available[1], m)
       ELSE IF Truthy(KeyOf(e, mig.config.apiProvider)) THEN
         LoadResult(Assign(mig.config, "apiKey", KeyOf(e, mig.config.apiProvider)),
                    f2, <<>>, "", m)
       ELSE LoadResult(mig.config, f2, <<>>, "", m)

----------------------------------------------------------------------------
(* Configuration resolver: the simple CLI *)

\* initConfig of the simple CLI: no migration, two providers overridden
SimpleInitConfig(f, e) ==
  LET d == DEFAULT_CONFIG("simple", e)
  IN IF f.kind = "absent" THEN LoadResult(d, Written(d), <<>>, "", NoMigration)
     ELSE IF f.kind = "malformed" THEN
       LoadResult(d, f, <<"Error reading config:">>, "", NoMigration)
     ELSE
       LET c == f.doc
           o == IF Truthy(e["ANTHROPIC_API_KEY"]) /\ c.apiProvider = "anthropic"
                  THEN Assign(c, "apiKey", e["ANTHROPIC_API_KEY"])
                ELSE IF Truthy(e["OPENAI_API_KEY"]) /\ c.apiProvider = "openai"
                  THEN Assign(c, "apiKey", e["OPENAI_API_KEY"])
                ELSE c
       IN LoadResult(Merge(d, o), f, <<>>, "", NoMigration)

\* a faulty load: a file that does not parse is treated as no file at all
LoadRecreating(v, cur, f, e) ==
  LET g == IF f.kind = "malformed" THEN AbsentFile ELSE f
  IN CASE v = "roo"  -> RooInitializeConfig(cur, g, e)
       [] v = "full" -> FullInitializeConfig(g, e)
       [] OTHER      -> SimpleInitConfig(g, e)

\* the load of the running program
Load(v, cur, f, e) ==
  CASE v = "roo"  -> RooInitializeConfig(cur, f, e)
    [] v = "full" -> FullInitializeConfig(f, e)
    [] OTHER      -> SimpleInitConfig(f, e)

----------------------------------------------------------------------------
(* /config *)

WordChars ==
  {"a","b","c","d","e","f","g","h","i","j","k","l","m","n","o","p","q","r","s","t",
   "u","v","w","x","y","z","A","B","C","D","E","F","G","H","I","J","K","L","M","N",
   "O","P","Q","R","S","T","U","V","W","X","Y","Z","0","1","2","3","4","5","6","7",
   "8","9","_"}

Digits == {"0","1","2","3","4","5","6","7","8","9"}

AllIn(s, chars) == \A i \in 1..Len(s) : CharAt(s, i) \in chars

\* subcommand.match(/^(\w+)=(.+)$/): <<key, value>>, or <<>> when there is no match
KeyValueMatch(sub) ==
  LET i == IndexFrom(sub, "=", 1)
  IN IF i > 1 /\ i < Len(sub) /\ AllIn(SubSeq(sub, 1, i - 1), WordChars)
          /\ ~Includes(Slice(sub, i), "\n")
       THEN <<SubSeq(sub, 1, i - 1), Slice(sub, i)>>
       ELSE <<>>

RECURSIVE StripZeros(_)
StripZeros(s) == IF Len(s) > 1 /\ CharAt(s, 1) = "0" THEN StripZeros(Slice(s, 1)) ELSE s

\* Number(value), for decimal text; any other text of the model is not a number
Number(value) ==
  LET t == Trim(value)
      d == IndexFrom(t, ".", 1)
  IN IF t = "" THEN "0"
     ELSE IF AllIn(t, Digits) THEN StripZeros(t)
     ELSE IF d > 1 /\ d < Len(t) /\ AllIn(SubSeq(t, 1, d - 1), Digits)
             /\ AllIn(Slice(t, d), Digits)
       THEN StripZeros(SubSeq(t, 1, d - 1)) \o "." \o Slice(t, d)
     ELSE "NaN"

\* properties every object inherits: `key in config` and MCP_MODES[value] see them
ObjectPrototypeKeys ==
  {"constructor", "toString", "valueOf", "hasOwnProperty", "isPrototypeOf",
   "propertyIsEnumerable", "toLocaleString", "__proto__"}

\* key in config
KeyIn(key, c) == key \in (DOMAIN c) \cup ObjectPrototypeKeys

\* MCP_MODES[value] is truthy
IsMode(value) == value \in MCP_MODES \cup ObjectPrototypeKeys

\* Object.entries order of a configuration
KeyOrder ==
  <<"apiProvider", "apiKey", "model", "temperature", "maxTokens", "mode",
    "workspacePath", "isVisionEnabled", "mcpServerAddress", "checkMcpOnStart">>

\* handleConfigCommand without an argument: the listing, the key masked
ConfigListing(c) ==
  LET shown(k) == IF k = "apiKey" THEN (IF Truthy(c[k]) THEN "****" ELSE "(not set)")
                  ELSE c[k]
      keys == SelectSeq(KeyOrder, LAMBDA k : k \in DOMAIN c)
  IN [i \in 1..Len(keys) |-> keys[i] \o " = " \o shown(keys[i])]

\* the result of a /config command: configuration, whether saveConfig ran, output
ConfigResult(c, saved, o) == [config |-> c, saved |-> saved, out |-> o]

\* a faulty acknowledgement: the value is shown for every key
UpdatedUnmasked(key, value) == <<"Configuration updated: " \o key \o " = " \o value>>

\* the acknowledgement of an update: the value, masked for apiKey
Updated(key, value) ==
  <<"Configuration updated: " \o key \o " = " \o (IF key = "apiKey" THEN "****" ELSE value)>>

\* the assignment of the last else branch: numeric fields through Number
PlainAssign(c, key, value) ==
  IF key \in {"temperature", "maxTokens"} THEN Assign(c, key, Number(value))
  ELSE Assign(c, key, value)

\* a faulty suggestion: the first model of the list replaces every model
SuggestModelAlways(c, models) ==
  IF Len(models) > 0 THEN Assign(c, "model", models[1]) ELSE c

\* the model after a provider switch, given the provider's model names
SuggestModel(c, models) ==
  IF Len(models) > 0 /\ ~SeqContains(models, c.model) THEN Assign(c, "model", models[1]) ELSE c

\* roo-cli.ts handleConfigCommand(subcommand), keys other than model
RooHandleConfigCommand(sub, c) ==
  LET kv == KeyValueMatch(sub) IN
  IF sub = "" THEN ConfigResult(c, FALSE, ConfigListing(c))
  ELSE IF kv = <<>> THEN
    ConfigResult(c, FALSE, <<"Invalid configuration format. Use /config key=value">>)
  ELSE IF ~KeyIn(kv[1], c) THEN
    ConfigResult(c, FALSE, <<"Unknown configuration key: " \o kv[1]>>)
  ELSE IF kv[1] = "apiProvider" THEN
    IF ~SeqContains(Providers("roo"), kv[2])
      THEN ConfigResult(c, FALSE, <<"Invalid provider: " \o kv[2]>>)
      ELSE ConfigResult(SuggestModel(Assign(c, "apiProvider", kv[2]), RooModels(kv[2])),
                        TRUE, Updated(kv[1], kv[2]))
  ELSE ConfigResult(PlainAssign(c, kv[1], kv[2]), TRUE, Updated(kv[1], kv[2]))

\* run-full-cli.js handleConfigCommand(subcommand, config), keys other than model;
\* models is what getAvailableModels answers for the new provider
FullHandleConfigCommand(sub, c, models) ==
  LET kv == KeyValueMatch(sub) IN
  IF sub = "" THEN ConfigResult(c, FALSE, ConfigListing(c))
  ELSE IF kv = <<>> THEN
    ConfigResult(c, FALSE, <<"Invalid configuration format. Use /config key=value">>)
  ELSE IF ~KeyIn(kv[1], c) THEN
    ConfigResult(c, FALSE, <<"Unknown configuration key: " \o kv[1]>>)
  ELSE IF kv[1] = "apiProvider" THEN
    IF ~SeqContains(Providers("full"), kv[2])
      THEN ConfigResult(c, FALSE, <<"Invalid provider: " \o kv[2]>>)
      ELSE ConfigResult(SuggestModel(Assign(c, "apiProvider", kv[2]), models),
                        TRUE, Updated(kv[1], kv[2]))
  ELSE IF kv[1] = "mode" THEN
    IF ~IsMode(kv[2])
      THEN ConfigResult(c, FALSE, <<"Unknown mode: " \o kv[2]>>)
      ELSE ConfigResult(Assign(c, "mode", kv[2]), TRUE, Updated(kv[1], kv[2]))
  ELSE IF kv[1] = "checkMcpOnStart" THEN
    ConfigResult(Assign(c, kv[1], IF ToLower(kv[2]) = "true" THEN "true" ELSE "false"),
                 TRUE, Updated(kv[1], kv[2]))
  ELSE ConfigResult(PlainAssign(c, kv[1], kv[2]), TRUE, Updated(kv[1], kv[2]))

\* the simple CLI's handleConfig(subcommand, config): no validation of any value
SimpleHandleConfig(sub, c) ==
  LET kv == KeyValueMatch(sub) IN
  IF sub = "" THEN ConfigResult(c, FALSE, ConfigListing(c))
  ELSE IF kv = <<>> THEN
    ConfigResult(c, FALSE, <<"Invalid configuration format. Use /config key=value">>)
  ELSE IF ~KeyIn(kv[1], c) THEN
    ConfigResult(c, FALSE, <<"Unknown configuration key: " \o kv[1]>>)
  ELSE ConfigResult(PlainAssign(c, kv[1], kv[2]), TRUE, Updated(kv[1], kv[2]))

\* run-full-cli.js fetchModelsFromProvider: the lists the provider's API may answer
\* (only openai and groq are asked); <<>> stands for a failed or empty fetch
FetchedModels(provider) ==
  CASE provider = "openai" -> {<<>>, <<"gpt-4.1", "gpt-4o">>}
    [] provider = "groq"   -> {<<>>, <<"llama-3.1-8b-instant", "llama-3.3-70b-versatile">>}
    [] OTHER               -> {<<>>}

\* run-full-cli.js getAvailableModels(provider), given the cache and the fetch's answer
getAvailableModels(cache, provider, fetched) ==
  IF provider \in DOMAIN cache /\ cache[provider] # <<>> THEN cache[provider]
  ELSE IF fetched # <<>> THEN fetched
  ELSE FallbackModels(provider)

\* cachedModels after getAvailableModels(provider)
Cached(cache, provider, fetched) ==
  Merge(cache, [x \in {provider} |-> getAvailableModels(cache, provider, fetched)])

----------------------------------------------------------------------------
(* Workspace files *)

NoNode == [kind |-> "none", content |-> "", entries |-> <<>>, locked |-> FALSE]
FileNode(text) == [kind |-> "file", content |-> text, entries |-> <<>>, locked |-> FALSE]
DirNode(items) == [kind |-> "dir", content |-> "", entries |-> items, locked |-> FALSE]
Dirent(n, d) == [name |-> n, isDir |-> d]

NodeAt(d, path) == IF path \in DOMAIN d THEN d[path] ELSE NoNode

\* path.join(config.workspacePath, p) for a relative p
FullPath(c, p) == IF c.workspacePath = "." THEN p ELSE c.workspacePath \o "/" \o p

\* fs.readFileSync(path, 'utf8') throws
ReadThrows(n) == n.kind # "file" \/ n.locked

\* fs.readdirSync(path, {withFileTypes: true}) throws
ReaddirThrows(n) == n.kind # "dir" \/ n.locked

\* fs.writeFileSync(path, content) throws
WriteThrows(n) == n.kind = "dir" \/ n.locked

\* the disk after a successful fs.writeFileSync(path, content)
WriteNode(d, path, text) ==
  LET listed == IF NodeAt(d, path).kind = "none" /\ "." \in DOMAIN d
                  THEN [d EXCEPT !["."].entries = Append(@, Dirent(path, FALSE))] ELSE d
  IN Merge(listed, [x \in {path} |-> FileNode(text)])

\* items.map(item => `${isDir ? '[DIR]' : '[FILE]'} ${item.name}`)
Tagged(items) ==
  [i \in 1..Len(items) |-> (IF items[i].isDir THEN "[DIR]" ELSE "[FILE]") \o " " \o items[i].name]

\* readFile(filePath) of roo-cli.ts and run-full-cli.js: always a string
readFile(d, c, filePath) ==
  LET n == NodeAt(d, FullPath(c, filePath))
  IN IF n.kind = "none" THEN "Error: File not found at " \o FullPath(c, filePath)
     ELSE IF ReadThrows(n) THEN "Error reading file: EACCES"
     ELSE n.content

\* writeFile(filePath, content): the string it returns
writeFile(d, c, filePath, text) ==
  IF WriteThrows(NodeAt(d, FullPath(c, filePath)))
    THEN "Error writing file: EACCES"
    ELSE "File written successfully to " \o FullPath(c, filePath)

\* the disk after writeFile(filePath, content)
DiskAfterWrite(d, c, filePath, text) ==
  IF WriteThrows(NodeAt(d, FullPath(c, filePath))) THEN d
  ELSE WriteNode(d, FullPath(c, filePath), text)

\* listFiles(dirPath): the string it returns
listFiles(d, c, dirPath) ==
  LET n == NodeAt(d, FullPath(c, dirPath))
  IN IF n.kind = "none" THEN "Error: Directory not found at " \o FullPath(c, dirPath)
     ELSE IF ReaddirThrows(n) THEN "Error listing files: ENOTDIR"
     ELSE Join(Tagged(n.entries), "\n")

\* the simple CLI's /ls: the entries joined with the two characters backslash, n
SimpleListing(n) == Join(Tagged(n.entries), "\\n")

UserEntry(text) == [role |-> "user", content |-> text]

\* a history that loses its entries when one is added
pushReplacing(messages, message) == <<message>>

\* chatHistory.push(message): the history with one entry added at its end
push(messages, message) == Append(messages, message)

----------------------------------------------------------------------------
(* Command dispatcher *)

\* what a handler leaves behind
Outcome(h, c, f, o, d, p, cache) ==
  [chatHistory |-> h, config |-> c, file |-> f, out |-> o, disk |-> d, pc |-> p,
   cachedModels |-> cache]

\* the /read, /write and /ls handlers shared by roo-cli.ts and run-full-cli.js
FileCommand(command, R) ==
  IF StartsWith(command, "read") THEN
    LET filePath == Trim(Slice(command, 4))
        content  == readFile(R.disk, R.config, filePath)
    IN IF filePath = "" THEN [R EXCEPT !.out = <<"Please specify a file path to read.">>]
       ELSE [R EXCEPT !.out = <<content>>,
                      !.chatHistory = Append(@, UserEntry(
                          "Here's the content of " \o filePath \o ":\n\n" \o content))]
  ELSE IF StartsWith(command, "write") THEN
    LET rest     == Trim(Slice(command, 5))
        filePath == Split(rest, " ")[1]
        content  == Substring(rest, Len(filePath) + 1)
    IN IF filePath = "" \/ content = "" THEN [R EXCEPT !.out = <<"Usage: /write path content">>]
       ELSE [R EXCEPT !.out = <<writeFile(R.disk, R.config, filePath, content)>>,
                      !.disk = DiskAfterWrite(R.disk, R.config, filePath, content),
                      !.chatHistory = Append(@, UserEntry(
                          "I've written the following content to " \o filePath
                            \o ":\n\n" \o content))]
  ELSE
    LET dirPath == IF Trim(Slice(command, 2)) = "" THEN "." ELSE Trim(Slice(command, 2))
        content == listFiles(R.disk, R.config, dirPath)
    IN [R EXCEPT !.out = <<content>>,
                 !.chatHistory = Append(@, UserEntry(
                     "Directory listing of " \o dirPath \o ":\n\n" \o content))]

IsFileCommand(command) ==
  StartsWith(command, "read") \/ StartsWith(command, "write") \/ StartsWith(command, "ls")

\* createEnvTemplate(): writes .env.template into the working directory
EnvTemplate(R) ==
  [R EXCEPT !.disk = WriteNode(R.disk, ".env.template", "# Roo Pilot API Keys"),
            !.out = <<"Created .env.template file at .env.template",
                      "Copy this file to .env and add your API keys.">>]

\* a faulty /config: the update stays in memory, saveConfig is not called
AfterConfigUnsaved(R, r) == [R EXCEPT !.config = r.config, !.out = r.out]

\* the dispatcher after a /config command: saveConfig() writes the whole configuration
AfterConfig(R, r) ==
  [R EXCEPT !.config = r.config, !.out = r.out,
            !.file = IF r.saved THEN Written(r.config) ELSE R.file]

\* roo-cli.ts runChatLoop, the body for an input that starts with "/"
RooSlash(command, R) ==
  IF command \in {"exit", "quit"} THEN [R EXCEPT !.out = <<"Goodbye!">>, !.pc = "exited"]
  ELSE IF command = "help" THEN [R EXCEPT !.out = <<"Roo Pilot CLI Commands:">>]
  ELSE IF command = "clear" THEN
    [R EXCEPT !.chatHistory = <<>>, !.out = <<"Chat history cleared.">>]
  ELSE IF StartsWith(command, "config") THEN
    AfterConfig(R, RooHandleConfigCommand(Trim(Slice(command, 6)), R.config))
  ELSE IF command = "env" THEN EnvTemplate(R)
  ELSE IF IsFileCommand(command) THEN FileCommand(command, R)
  ELSE IF command = "models" THEN
    [R EXCEPT !.out = <<"Available models for current provider:">>, !.pc = "selectModel"]
  ELSE [R EXCEPT !.out = <<"Unknown command: " \o command>>]

\* run-full-cli.js rl.on('line'), the body for an input that starts with "/";
\* fetched is the network's answer should getAvailableModels ask it
FullSlash(command, R, fetched) ==
  IF command \in {"exit", "quit"} THEN
    [R EXCEPT !.out = <<"Goodbye! Thanks for using Roo Pilot CLI.">>, !.pc = "exited"]
  ELSE IF command = "help" THEN [R EXCEPT !.out = <<"Roo Pilot CLI Commands:">>]
  ELSE IF command = "clear" THEN
    [R EXCEPT !.chatHistory = <<>>, !.out = <<"Chat history cleared.">>]
  ELSE IF StartsWith(command, "config") THEN
    LET sub == Trim(Slice(command, 6))
        kv  == KeyValueMatch(sub)
        asked == kv # <<>> /\ kv[1] = "apiProvider" /\ SeqContains(Providers("full"), kv[2])
        models == IF asked THEN getAvailableModels(R.cachedModels, kv[2], fetched) ELSE <<>>
        R2 == IF asked THEN [R EXCEPT !.cachedModels = Cached(@, kv[2], fetched)] ELSE R
    IN AfterConfig(R2, FullHandleConfigCommand(sub, R.config, models))
  ELSE IF command = "env" THEN EnvTemplate(R)
  ELSE IF IsFileCommand(command) THEN FileCommand(command, R)
  ELSE IF command = "models" THEN
    [R EXCEPT !.out = <<"Fetching available models for current provider...">>,
              !.pc = "selectModel"]
  ELSE IF command = "modes" THEN [R EXCEPT !.out = <<"Available Modes:">>]
  ELSE IF StartsWith(command, "mode ") THEN
    LET modeName == ToLower(Trim(Slice(command, 5)))
    IN IF IsMode(modeName)
         THEN LET c2 == Assign(R.config, "mode", modeName)
              IN [R EXCEPT !.config = c2, !.file = Written(c2),
                           !.out = <<"Mode switched to: " \o modeName>>]
         ELSE [R EXCEPT !.out = <<"Unknown mode: " \o modeName>>]
  ELSE [R EXCEPT !.out = <<"Unknown command: " \o command>>]

\* the simple CLI's rl.on('line'), the body for an input that starts with "/"
SimpleSlash(command, R) ==
  IF command \in {"exit", "quit"} THEN [R EXCEPT !.out = <<"Goodbye!">>, !.pc = "exited"]
  ELSE IF command = "help" THEN [R EXCEPT !.out = <<"Roo Pilot CLI Commands:">>]
  ELSE IF command = "clear" THEN
    [R EXCEPT !.chatHistory = <<>>, !.out = <<"Chat history cleared.">>]
  ELSE IF StartsWith(command, "config") THEN
    AfterConfig(R, SimpleHandleConfig(Trim(Slice(command, 6)), R.config))
  ELSE IF StartsWith(command, "read") THEN
    LET filePath == Trim(Slice(command, 5))
        n == NodeAt(R.disk, FullPath(R.config, filePath))
    IN IF filePath = "" THEN [R EXCEPT !.out = <<"Please specify a file path to read.">>]
       ELSE IF ReadThrows(n) THEN [R EXCEPT !.out = <<"Error reading file: ENOENT">>]
       ELSE [R EXCEPT !.out = <<n.content>>,
                      !.chatHistory = Append(@, UserEntry(
                          "Here's the content of " \o filePath \o ":\n\n" \o n.content))]
  ELSE IF StartsWith(command, "ls") THEN
    LET dirPath == IF Trim(Slice(command, 3)) = "" THEN "." ELSE Trim(Slice(command, 3))
        n == NodeAt(R.disk, FullPath(R.config, dirPath))
    IN IF ReaddirThrows(n) THEN [R EXCEPT !.out = <<"Error listing directory: ENOENT">>]
       ELSE [R EXCEPT !.out = <<SimpleListing(n)>>,
                      !.chatHistory = Append(@, UserEntry(
                          "Directory listing of " \o dirPath \o ":\n\n" \o SimpleListing(n)))]
  ELSE [R EXCEPT !.out = <<"Unknown command: " \o command>>]

\* the handler of one input line that starts with "/"
Slash(v, input, R, fetched) ==
  LET command == Trim(Slice(input, 1))
  IN CASE v = "roo"  -> RooSlash(command, R)
       [] v = "full" -> FullSlash(command, R, fetched)
       [] OTHER      -> SimpleSlash(command, R)

----------------------------------------------------------------------------
(* Extraction of shell commands from an assistant reply *)

\* the backtick: a TLA+ string cannot hold one, so "@" stands for it in every
\* text of the model (no text of the model holds a real "@")
BT == "@"

Fence == BT \o BT \o BT

\* text.startsWith(p, i - 1): p occurs in text at index i (1-based)
StartsWithAt(text, i, p) ==
  i >= 1 /\ i + Len(p) - 1 <= Len(text) /\ SubSeq(text, i, i + Len(p) - 1) = p

\* index of the first occurrence of sub in text at or after i, 0 if none
RECURSIVE IndexOf(_, _, _)
IndexOf(text, sub, i) ==
  IF i + Len(sub) - 1 > Len(text) THEN 0
  ELSE IF StartsWithAt(text, i, sub) THEN i
  ELSE IndexOf(text, sub, i + 1)

\* a faulty deduplication: every command is kept
KeepAll(commands) == commands

\* [...new Set(commands)]: first occurrences, in order
RECURSIVE Unique(_)
Unique(commands) ==
  IF commands = <<>> THEN <<>>
  ELSE LET init == Unique(SubSeq(commands, 1, Len(commands) - 1))
           last == commands[Len(commands)]
       IN IF SeqContains(init, last) THEN init ELSE Append(init, last)

\* the captures of /`([^`]+)`/g from index i on
RECURSIVE InlineSpans(_, _)
InlineSpans(text, i) ==
  IF i > Len(text) THEN <<>>
  ELSE IF CharAt(text, i) # BT THEN InlineSpans(text, i + 1)
  ELSE LET j == IndexFrom(text, BT, i + 1)
       IN IF j = 0 THEN <<>>
          ELSE IF j = i + 1 THEN InlineSpans(text, i + 1)
          ELSE <<SubSeq(text, i + 1, j - 1)>> \o InlineSpans(text, j + 1)

\* roo-cli.ts extractCommands: the languages codeBlockRegex accepts after a fence
RooLanguages == <<"bash", "sh", "shell", "zsh", "">>

\* codeBlockRegex at index i: the index of the first character of the capture when
\* a fence, an accepted language and a newline stand at i, else 0
RooOpenAt(text, i) ==
  LET ok == {k \in 1..Len(RooLanguages) :
               StartsWithAt(text, i, Fence \o RooLanguages[k] \o "\n")}
  IN IF ok = {} THEN 0
     ELSE i + 3 + Len(RooLanguages[CHOOSE k \in ok : TRUE]) + 1

\* the captures of /```(?:bash|sh|shell|zsh|)?\n([\s\S]*?)\n```/g from index i on
RECURSIVE RooBlocks(_, _)
RooBlocks(text, i) ==
  IF i > Len(text) THEN <<>>
  ELSE LET start == RooOpenAt(text, i)
           close == IF start = 0 THEN 0 ELSE IndexOf(text, "\n" \o Fence, start)
       IN IF close = 0 THEN RooBlocks(text, i + 1)
          ELSE <<SubSeq(text, start, close - 1)>> \o RooBlocks(text, close + 4)

\* roo-cli.ts extractCommands: commandPrefixes
commandPrefixes ==
  <<"cd ", "ls", "cat ", "grep ", "find ", "mkdir ", "rm ", "cp ", "mv ", "git ", "npm ",
    "node ", "python ", "pip ", "sudo ", "apt ", "brew ", "touch ", "echo ", "curl ", "wget ">>

StartsWithAny(code, prefixes) ==
  \E k \in 1..Len(prefixes) : StartsWith(code, prefixes[k])

\* captures trimmed
Trimmed(captures) == [k \in 1..Len(captures) |-> Trim(captures[k])]

\* roo-cli.ts extractCommands(text)
extractCommands(text) ==
  LET blocks  == SelectSeq(Trimmed(RooBlocks(text, 1)),
                           LAMBDA code : code # "" /\ ~Includes(code, "\n"))
      inlines == SelectSeq(Trimmed(InlineSpans(text, 1)),
                           LAMBDA code : StartsWithAny(code, commandPrefixes))
  IN Unique(blocks \o inlines)

\* run-full-cli.js codeBlockPattern: the index after (?:bash|shell|sh|\n|\s)?\n?
\* when the characters after a fence start at index p
FullAfterLanguage(text, p) ==
  LET q == IF StartsWithAt(text, p, "bash") THEN p + 4
           ELSE IF StartsWithAt(text, p, "shell") THEN p + 5
           ELSE IF StartsWithAt(text, p, "sh") THEN p + 2
           ELSE IF p <= Len(text) /\ IsSpace(CharAt(text, p)) THEN p + 1
           ELSE p
  IN IF StartsWithAt(text, q, "\n") THEN q + 1 ELSE q

\* the captures of /```(?:bash|shell|sh|\n|\s)?\n?(.*?)```/gs from index i on
RECURSIVE FullBlocks(_, _)
FullBlocks(text, i) ==
  IF i > Len(text) THEN <<>>
  ELSE IF ~StartsWithAt(text, i, Fence) THEN FullBlocks(text, i + 1)
  ELSE LET q     == FullAfterLanguage(text, i + 3)
           close == IndexOf(text, Fence, q)
       IN IF close = 0 THEN FullBlocks(text, i + 1)
          ELSE <<SubSeq(text, q, close - 1)>> \o FullBlocks(text, close + 3)

\* run-full-cli.js tryExtractAndRunCommand: the verbs a line or a span may start with
ShellVerbs == <<"ls", "find", "grep", "wc", "cat", "echo">>

\* tryExtractAndRunCommand: what one fenced block contributes
FullFromBlock(capture) ==
  LET potentialCommand == Trim(capture)
  IN IF potentialCommand = "" THEN <<>>
     ELSE IF ~Includes(potentialCommand, "\n") THEN <<potentialCommand>>
     ELSE SelectSeq(Trimmed(Split(potentialCommand, "\n")),
                    LAMBDA line : line # "" /\ ~StartsWith(line, "#")
                                    /\ StartsWithAny(line, ShellVerbs))

RECURSIVE FullFromBlocks(_)
FullFromBlocks(captures) ==
  IF captures = <<>> THEN <<>>
  ELSE FullFromBlock(Head(captures)) \o FullFromBlocks(Tail(captures))

\* run-full-cli.js tryExtractAndRunCommand(response): commandsToRun
commandsToRun(response) ==
  LET fromBlocks == FullFromBlocks(FullBlocks(response, 1))
  IN IF fromBlocks # <<>> THEN fromBlocks
     ELSE SelectSeq(Trimmed(InlineSpans(response, 1)),
                    LAMBDA code : code # "" /\ StartsWithAny(code, ShellVerbs))

\* text.includes(sub)
Contains(text, sub) == IndexOf(text, sub, 1) # 0

\* head .* tail
ContainsInOrder(text, head, tail) ==
  LET a == IndexOf(text, head, 1)
  IN a # 0 /\ IndexOf(text, tail, a + Len(head)) # 0

\* run-full-cli.js isAskingForCommand(input), input already lower-cased (the
\* patterns are case-insensitive)
isAskingForCommand(input) ==
  \/ \E how \in {"how do i ", "how can i ", "how to i "} :
       \E what \in {" in terminal", " in shell", " in bash", " in command line", " files",
                    " directory", " folder", " list", " find", " search", " delete",
                    " create"} :
         ContainsInOrder(input, how, what)
  \/ \E phrase \in {"what command should i ", "what command can i ", "what command do i ",
                    "what's the command for ", "what's the command to ",
                    "what is the command for ", "what is the command to ",
                    "what are the commands ", "which command should i ",
                    "which command can i ", "which command do i ", "command for ",
                    "command to ", "how many files ", "how many directories ",
                    "count files ", "count directories ", "show me files ",
                    "show me directories ", "list files ", "list directories "} :
       Contains(input, phrase)

----------------------------------------------------------------------------
(* Actions *)

\* a provider whose model list needs no network: its callback runs before any input
Immediate(provider) == provider \in {"anthropic", "mistral"}

\* no provider request made
NoRequest == [model |-> "", temperature |-> "", max_tokens |-> ""]

\* no chat turn yet
NoTurn == [asked |-> FALSE, replied |-> FALSE, scanned |-> FALSE, reply |-> "",
           candidates |-> <<>>, provider |-> "", handler |-> "", chunks |-> <<>>,
           failed |-> FALSE, request |-> NoRequest, tools |-> <<>>,
           received |-> 0, ended |-> FALSE]

\* no model menu
NoMenu == [state |-> "", provider |-> "", models |-> <<>>]

AssistantEntry(text) == [role |-> "assistant", content |-> text]

\* src/api/simple-index.ts buildApiHandler(configuration): the handler class chosen
buildApiHandler(apiProvider) ==
  CASE apiProvider = "anthropic" -> "anthropic"
    [] apiProvider = "openai"    -> "openai"
    [] OTHER                     -> "anthropic"

\* run-full-cli.js generateResponse(config, messages): the client the request goes
\* through, "none" when the function returns its not-supported text without a request
generateResponse(apiProvider) ==
  CASE apiProvider = "anthropic" -> "anthropic"
    [] apiProvider = "openai"    -> "openai"
    [] apiProvider = "groq"      -> "groq"
    [] OTHER                     -> "none"

\* the adapter a chat message of program v goes through (the simple CLI always
\* creates an Anthropic client)
HandlerOf(v, apiProvider) ==
  CASE v = "roo"  -> buildApiHandler(apiProvider)
    [] v = "full" -> generateResponse(apiProvider)
    [] OTHER      -> "anthropic"

\* run-full-cli.js generateResponse: the text returned for any other provider
NotSupported(apiProvider) ==
  "Provider " \o apiProvider \o " is not supported in this version. Please use "
    \o "/config apiProvider=anthropic, /config apiProvider=openai, or "
    \o "/config apiProvider=groq."

\* the arguments of client.messages.create / client.chat.completions.create in
\* run-full-cli.js generateResponse and in the simple CLI; roo-cli.ts leaves the
\* request to the handler it built
RequestOf(v, handler, c) ==
  IF v = "roo" \/ handler = "none" THEN NoRequest
  ELSE [model |-> c.model, temperature |-> c.temperature, max_tokens |-> c.maxTokens]

\* the handler of the latest chat line
Current == [pc |-> pc, turn |-> turn]

\* run-full-cli.js and the simple CLI register an async 'line' listener: a line
\* that arrives while an earlier handler waits (for the provider, for the
\* execution prompt) is handled at once; roo-cli.ts reads the next line only at
\* the top of its loop
LineHandled ==
  /\ exit = ""
  /\ \/ pc = "awaiting"
     \/ variant # "roo" /\ pc \in {"processing", "confirmCommand"}

\* a line that does not start with "/" is read: the user entry is pushed and the
\* request goes to the provider (without an API key the turn ends at once;
\* roo-cli.ts has pushed the user entry by then, the other two have not); a
\* handler that still waits is kept aside
ChatLine(input) ==
  /\ LineHandled
  /\ ~Immediate(pendingSwitch)
  /\ Len(chatHistory) < MaxHistory
  /\ Len(executed) < MaxExecuted
  /\ ~StartsWith(input, "/")
  /\ variant = "full" => Trim(input) # ""
  /\ IF ~Truthy(config.apiKey)
       THEN /\ chatHistory' = IF variant = "roo" THEN push(chatHistory, UserEntry(input))
                              ELSE chatHistory
            /\ out' = <<"API key not set.">>
            /\ pc' = pc
            /\ turn' = IF pc = "awaiting" THEN NoTurn ELSE turn
            /\ suspended' = suspended
       ELSE /\ pc # "awaiting" => Len(suspended) < MaxSuspended
            /\ chatHistory' = push(chatHistory, UserEntry(input))
            /\ out' = <<>>
            /\ pc' = "processing"
            /\ turn' = [NoTurn EXCEPT !.asked = isAskingForCommand(ToLower(input)),
                                      !.provider = config.apiProvider,
                                      !.handler = HandlerOf(variant, config.apiProvider),
                                      !.request = RequestOf(variant,
                                                    HandlerOf(variant, config.apiProvider),
                                                    config)]
            /\ suspended' = IF pc = "awaiting" THEN suspended ELSE Append(suspended, Current)
  /\ lastInput' = input
  /\ UNCHANGED <<variant, env, file, config, disk, pendingSwitch, cachedModels, lastLoad,
                 loads, menu, exit, executed>>

\* sequence s without its i-th element
Without(s, i) == SubSeq(s, 1, i - 1) \o SubSeq(s, i + 1, Len(s))

\* the handler numbered i (0: the latest, k > 0: the k-th kept aside)
HandlerAt(i) == IF i = 0 THEN Current ELSE suspended[i]

\* handler i goes on to position p with locals t; one kept aside that has finished
\* is dropped, and the simple CLI, its input closed, ends with its last handler
Put(i, p, t) ==
  IF i = 0 THEN /\ pc' = IF p = "awaiting" /\ exit # "" THEN "exited" ELSE p
                /\ turn' = t
                /\ suspended' = suspended
  ELSE /\ pc' = pc
       /\ turn' = turn
       /\ suspended' = IF p = "awaiting" THEN Without(suspended, i)
                       ELSE [suspended EXCEPT ![i] = [pc |-> p, turn |-> t]]

\* a chunk of the message stream roo-cli.ts reads
TextDelta(text) == [type |-> "content_block_delta", text |-> text]
MessageStop == [type |-> "message_stop", text |-> ""]
OtherChunk == [type |-> "message_start", text |-> ""]

\* the streams that deliver text and complete: in one delta, or in two with a
\* chunk of another type between them
StreamsOf(text) ==
  LET half == Len(text) \div 2
  IN {<<TextDelta(text), MessageStop>>,
      <<OtherChunk, TextDelta(SubSeq(text, 1, half)), OtherChunk,
        TextDelta(SubSeq(text, half + 1, Len(text))), MessageStop>>}

\* a faulty accumulation: each delta is put in front of the text so far
RECURSIVE AccumulateReversed(_)
AccumulateReversed(stream) ==
  IF stream = <<>> THEN [assistantResponse |-> "", isDone |-> FALSE]
  ELSE LET before == AccumulateReversed(SubSeq(stream, 1, Len(stream) - 1))
           chunk  == stream[Len(stream)]
       IN IF chunk.type = "content_block_delta"
            THEN [before EXCEPT !.assistantResponse = chunk.text \o @]
          ELSE IF chunk.type = "message_stop" THEN [before EXCEPT !.isDone = TRUE]
          ELSE before

\* roo-cli.ts processUserInput, the for await loop over the stream: the text
\* deltas are appended in arrival order, message_stop sets isDone
RECURSIVE Accumulate(_)
Accumulate(stream) ==
  IF stream = <<>> THEN [assistantResponse |-> "", isDone |-> FALSE]
  ELSE LET before == Accumulate(SubSeq(stream, 1, Len(stream) - 1))
           chunk  == stream[Len(stream)]
       IN IF chunk.type = "content_block_delta"
            THEN [before EXCEPT !.assistantResponse = @ \o chunk.text]
          ELSE IF chunk.type = "message_stop" THEN [before EXCEPT !.isDone = TRUE]
          ELSE before

\* the execution prompt for the candidates found
Offer(v, found) ==
  IF found = <<>> THEN <<>>
  ELSE IF v = "roo"
    THEN <<"I found some commands in the response. Would you like to run one?">>
           \o [k \in 1..Len(found) |-> found[k]]
           \o <<"Do not run any command">>
  ELSE <<"Would you like me to run this command for you? " \o found[1]>>

\* the provider's answer has arrived in full (a text without tool requests; in
\* roo-cli.ts as a stream that ends with message_stop): the assistant entry is
\* pushed, the reply printed, and the reply is scanned for commands -- always in
\* roo-cli.ts, in run-full-cli.js when the input was a command question, never
\* in the simple CLI; candidates open the execution prompt.  For a provider
\* without a client run-full-cli.js answers with its not-supported text.
ProviderReplies(text) ==
  /\ \E i \in 0..Len(suspended) :
     \E h \in {HandlerAt(i)} :
       /\ h.pc = "processing"
       /\ h.turn.handler = "none" => text = ""
       /\ \E stream \in StreamsOf(text) :
          \E response \in {IF variant = "roo" THEN Accumulate(stream).assistantResponse
                           ELSE IF h.turn.handler = "none" THEN NotSupported(h.turn.provider)
                           ELSE text} :
          \E scans \in {variant = "roo" \/ (variant = "full" /\ h.turn.asked)} :
          \E found \in {IF ~scans THEN <<>>
                        ELSE IF variant = "roo" THEN extractCommands(response)
                        ELSE commandsToRun(response)} :
            /\ chatHistory' = push(chatHistory, AssistantEntry(response))
            /\ out' = <<"Assistant > ">> \o Offer(variant, found)
            /\ Put(i, IF found = <<>> THEN "awaiting" ELSE "confirmCommand",
                   [h.turn EXCEPT !.replied = TRUE, !.scanned = scans, !.reply = text,
                                  !.candidates = found,
                                  !.chunks = IF variant = "roo" THEN stream ELSE <<>>])
  /\ UNCHANGED <<variant, env, file, config, disk, pendingSwitch, cachedModels, lastLoad,
                 lastInput, loads, menu, exit, executed>>

\* a faulty confirmation: every answer that begins with y confirms
askYesNoPrefix(answer) == StartsWith(ToLower(answer), "y")

\* roo-cli.ts askYesNo(question): what the promise resolves to for the line typed
askYesNo(answer) == ToLower(answer) = "y"

\* roo-cli.ts processUserInput: the provider's answer has arrived in full and
\* parseAssistantMessage finds tool requests in it; the assistant entry is
\* pushed, the reply printed, and the tool requests are handled one by one
ToolUseReply(text, toolUses) ==
  /\ variant = "roo"
  /\ pc = "processing"
  /\ toolUses # <<>>
  /\ \E stream \in StreamsOf(text) :
     \E response \in {Accumulate(stream).assistantResponse} :
       /\ chatHistory' = push(chatHistory, AssistantEntry(response))
       /\ turn' = [turn EXCEPT !.replied = TRUE, !.scanned = TRUE, !.reply = text,
                               !.candidates = extractCommands(response),
                               !.chunks = stream, !.tools = toolUses]
  /\ out' = <<"Assistant > ">>
  /\ pc' = "toolUse"
  /\ UNCHANGED <<variant, env, file, config, disk, pendingSwitch, cachedModels, lastLoad,
                 lastInput, loads, menu, exit, executed, suspended>>

\* roo-cli.ts processUserInput after a tool request has been handled: the next
\* request, or the execution prompt for the commands of the reply
AfterTool(printed) ==
  /\ turn' = [turn EXCEPT !.tools = Tail(@)]
  /\ IF Len(turn.tools) > 1
       THEN pc' = "toolUse" /\ out' = printed
       ELSE /\ pc' = IF turn.candidates = <<>> THEN "awaiting" ELSE "confirmCommand"
            /\ out' = printed \o Offer(variant, turn.candidates)

\* roo-cli.ts handleToolUse(toolUse) up to its first prompt: a tool that
\* isToolAllowedForMode rejects for the mode is refused; read_file and
\* list_files push their result; write_to_file asks for confirmation; any
\* other tool is answered as not supported
handleToolUse(allowed) ==
  /\ pc = "toolUse"
  /\ LET toolUse == Head(turn.tools)
     IN IF ~allowed THEN
          /\ AfterTool(<<"Tool " \o toolUse.name \o " is not allowed in this mode.">>)
          /\ chatHistory' = chatHistory
        ELSE IF toolUse.name = "write_to_file" THEN
          /\ pc' = "confirmWrite"
          /\ out' = <<"Requested to use tool: " \o toolUse.name,
                      "Allow writing to " \o toolUse.file_path \o "? (y/n) ">>
          /\ turn' = turn
          /\ chatHistory' = chatHistory
        ELSE
          /\ AfterTool(<<"Requested to use tool: " \o toolUse.name>>)
          /\ chatHistory' = push(chatHistory, UserEntry(
               CASE toolUse.name = "read_file" ->
                      "Tool read_file result:\n" \o readFile(disk, config, toolUse.file_path)
                 [] toolUse.name = "list_files" ->
                      "Tool list_files result:\n" \o listFiles(disk, config, toolUse.file_path)
                 [] OTHER ->
                      "Tool " \o toolUse.name \o " is not supported in the CLI version."))
  /\ UNCHANGED <<variant, env, file, config, disk, pendingSwitch, cachedModels, lastLoad,
                 lastInput, loads, menu, exit, executed, suspended>>

\* roo-cli.ts handleToolUse, write_to_file after `await askYesNo`: on y the file
\* is written and the result of writeFile pushed, on any other answer the
\* rejection is pushed
AnswerWritePrompt(answer) ==
  /\ pc = "confirmWrite"
  /\ LET toolUse == Head(turn.tools)
     IN IF askYesNo(answer) THEN
          /\ disk' = DiskAfterWrite(disk, config, toolUse.file_path, toolUse.content)
          /\ chatHistory' = push(chatHistory, UserEntry(
               "Tool write_to_file result:\n"
                 \o writeFile(disk, config, toolUse.file_path, toolUse.content)))
          /\ AfterTool(<<"Writing to file: " \o toolUse.file_path>>)
        ELSE
          /\ disk' = disk
          /\ chatHistory' = push(chatHistory,
               UserEntry("Tool write_to_file was rejected by the user."))
          /\ AfterTool(<<>>)
  /\ UNCHANGED <<variant, env, file, config, pendingSwitch, cachedModels, lastLoad,
                 lastInput, loads, menu, exit, executed, suspended>>

\* how a provider request fails: the call or the stream throws (network failure,
\* non-success response), or the stream of roo-cli.ts ends without message_stop
Failures(v) == IF v = "roo" THEN {"throws", "no message_stop"} ELSE {"throws"}

\* a faulty failure path: the error is not caught and ends the process
ProviderFailsFatal(how) ==
  /\ how \in Failures(variant)
  /\ \E i \in 0..Len(suspended) : HandlerAt(i).pc = "processing" /\ HandlerAt(i).turn.handler # "none"
  /\ out' = <<"Error processing request:">>
  /\ pc' = "exited"
  /\ suspended' = <<>>
  /\ UNCHANGED <<variant, env, file, config, chatHistory, disk, pendingSwitch, cachedModels,
                 lastLoad, lastInput, loads, menu, exit, executed, turn>>

\* the provider request of a handler fails: a throw is caught and printed, a
\* stream without message_stop is dropped in silence; no assistant entry is pushed
ProviderFails(how) ==
  /\ how \in Failures(variant)
  /\ \E i \in 0..Len(suspended) :
       LET h == HandlerAt(i)
       IN /\ h.pc = "processing"
          /\ h.turn.handler # "none"
          /\ out' = IF how = "throws" THEN <<"Error processing request:">> ELSE <<>>
          /\ Put(i, "awaiting", [h.turn EXCEPT !.failed = TRUE])
  /\ UNCHANGED <<variant, env, file, config, chatHistory, disk, pendingSwitch, cachedModels,
                 lastLoad, lastInput, loads, menu, exit, executed>>

----------------------------------------------------------------------------
(* GroqHandler: src/api/providers/groq.ts *)

\* roo-cli.ts getApiConfiguration(): the options a handler is built with
getApiConfiguration(c) ==
  [apiProvider |-> c.apiProvider, apiKey |-> c.apiKey, model |-> c.model,
   modelMaxTokens |-> c.maxTokens, modelTemperature |-> c.temperature]

\* null or undefined, the values ?? replaces
Nullish(v) == v \in {"undefined", "null"}

\* providers/constants ANTHROPIC_DEFAULT_MAX_TOKENS
ANTHROPIC_DEFAULT_MAX_TOKENS == "8192"

\* GroqHandler.modelInfo after the constructor
GroqModelInfo(options) ==
  [id |-> IF Truthy(options.model) THEN options.model ELSE "llama3-70b-8192",
   maxTokens |-> "8192"]

\* src/api/simple-index.ts getModelParams({options, model, defaultMaxTokens}):
\* customMaxTokens is destructured and not used
getModelParams(options, model, defaultMaxTokens) ==
  [maxTokens   |-> IF Nullish(model.maxTokens) THEN defaultMaxTokens ELSE model.maxTokens,
   temperature |-> IF Nullish(options.modelTemperature) THEN "0"
                   ELSE options.modelTemperature]

\* GroqHandler.createMessage: the arguments of client.chat.completions.create
GroqRequest(options) ==
  LET modelInfo == GroqModelInfo(options)
      params    == getModelParams(options, modelInfo, ANTHROPIC_DEFAULT_MAX_TOKENS)
  IN [model |-> modelInfo.id, temperature |-> params.temperature,
      max_tokens |-> params.maxTokens]

ErrorChunk == [type |-> "error", text |-> "Unknown error"]

\* the deltas written for the chunks the provider sent (a chunk without content
\* writes nothing)
RECURSIVE GroqDeltas(_)
GroqDeltas(contents) ==
  IF contents = <<>> THEN <<>>
  ELSE (IF Truthy(Head(contents)) THEN <<TextDelta(Head(contents))>> ELSE <<>>)
         \o GroqDeltas(Tail(contents))

\* a faulty end of the stream: message_stop is written after the error chunk too
TerminalStopAlways(fails) == (IF fails THEN <<ErrorChunk>> ELSE <<>>) \o <<MessageStop>>

\* GroqHandler.createMessage: what is written last, before stream.end():
\* message_stop at the end of the try block, the error chunk in the catch block
Terminal(fails) == IF fails THEN <<ErrorChunk>> ELSE <<MessageStop>>

\* createMessage of a GroqHandler built from getApiConfiguration() is called for
\* a chat turn of roo-cli.ts whose provider is groq: the stream is created and
\* client.chat.completions.create called with the request
GroqCreateMessage ==
  /\ variant = "roo"
  /\ pc = "processing"
  /\ turn.provider = "groq"
  /\ turn.request = NoRequest
  /\ turn' = [turn EXCEPT !.handler = "groq",
                          !.request = GroqRequest(getApiConfiguration(config))]
  /\ UNCHANGED <<variant, env, file, config, chatHistory, pc, out, disk, pendingSwitch,
                 cachedModels, lastLoad, lastInput, loads, menu, exit, executed, suspended>>

\* the stream of a GroqHandler is being written
GroqStreaming ==
  /\ variant = "roo"
  /\ pc = "processing"
  /\ turn.handler = "groq"
  /\ turn.request # NoRequest
  /\ ~turn.ended

\* GroqHandler.createMessage, one pass of `for await (const chunk of response)`:
\* the next chunk of `contents` has arrived, a delta is written when it has content
GroqChunk(contents) ==
  /\ GroqStreaming
  /\ turn.received < Len(contents)
  /\ turn' = [turn EXCEPT !.received = @ + 1,
                          !.chunks = @ \o GroqDeltas(<<contents[turn.received + 1]>>)]
  /\ UNCHANGED <<variant, env, file, config, chatHistory, pc, out, disk, pendingSwitch,
                 cachedModels, lastLoad, lastInput, loads, menu, exit, executed, suspended>>

\* GroqHandler.createMessage ends the stream: after the last chunk of `contents`
\* (~fails), or in the catch block when the request or the iteration has thrown
\* (fails)
GroqEnd(contents, fails) ==
  /\ GroqStreaming
  /\ ~fails => turn.received = Len(contents)
  /\ turn' = [turn EXCEPT !.chunks = @ \o Terminal(fails), !.ended = TRUE,
                          !.failed = fails]
  /\ UNCHANGED <<variant, env, file, config, chatHistory, pc, out, disk, pendingSwitch,
                 cachedModels, lastLoad, lastInput, loads, menu, exit, executed, suspended>>

\* roo-cli.ts processUserInput, the loop over the stream and `if (isDone)`: the
\* assistant entry is pushed and printed when message_stop was among the chunks,
\* nothing is pushed otherwise.  createMessage of GroqHandler is an async
\* function, `for await` over its result iterates the stream only if the api
\* module hands the stream on (iterable); over the promise itself it throws and
\* the catch block of processUserInput prints the error.  Nothing else reads
\* the stream, the step is taken once it has ended.
StreamConsumed(iterable) ==
  /\ variant = "roo"
  /\ pc = "processing"
  /\ turn.handler = "groq"
  /\ turn.ended
  /\ \E r \in {Accumulate(turn.chunks)} :
     \E found \in {IF r.isDone THEN extractCommands(r.assistantResponse) ELSE <<>>} :
       IF iterable /\ r.isDone
         THEN /\ chatHistory' = push(chatHistory, AssistantEntry(r.assistantResponse))
              /\ out' = <<"Assistant > ">> \o Offer(variant, found)
              /\ Put(0, IF found = <<>> THEN "awaiting" ELSE "confirmCommand",
                     [turn EXCEPT !.replied = TRUE, !.scanned = TRUE,
                                  !.reply = r.assistantResponse, !.candidates = found])
         ELSE /\ chatHistory' = chatHistory
              /\ out' = IF iterable THEN <<>> ELSE <<"Error processing request:">>
              /\ Put(0, "awaiting", [turn EXCEPT !.failed = TRUE])
  /\ UNCHANGED <<variant, env, file, config, disk, pendingSwitch, cachedModels, lastLoad,
                 lastInput, loads, menu, exit, executed>>

\* the digits s starts with
RECURSIVE LeadingDigits(_)
LeadingDigits(s) ==
  IF s = "" \/ CharAt(s, 1) \notin Digits THEN ""
  ELSE CharAt(s, 1) \o LeadingDigits(Slice(s, 1))

\* the number a string of digits denotes
RECURSIVE DigitsValue(_)
DigitsValue(s) ==
  IF s = "" THEN 0
  ELSE 10 * DigitsValue(SubSeq(s, 1, Len(s) - 1)) + (IndexFrom("0123456789", CharAt(s, Len(s)), 1) - 1)

\* parseInt(s): leading white space and a sign are skipped, the digits that follow
\* are read and the rest is ignored; NaN, which fails every comparison the
\* programs make, is -1
ParseInt(s) ==
  LET t    == TrimLeft(s)
      sign == IF StartsWith(t, "-") THEN -1 ELSE 1
      body == IF StartsWith(t, "-") \/ StartsWith(t, "+") THEN Slice(t, 1) ELSE t
      ds   == LeadingDigits(body)
  IN IF ds = "" THEN -1 ELSE sign * DigitsValue(ds)

\* what execSync(command) may do: return the output, or throw
ExecResults == {[ok |-> TRUE, text |-> "total 0"], [ok |-> FALSE, text |-> "Command failed"]}

\* what executeCommand shows for a result
Shown(result) == IF result.ok THEN result.text ELSE "Error: " \o result.text

\* a faulty entry: the command is recorded without what it printed
CommandEntryWithoutOutput(v, command, result) ==
  UserEntry("I ran the command " \o BT \o command \o BT)

\* the history entry pushed after a command has run
CommandEntry(v, command, result) ==
  IF v = "roo"
    THEN UserEntry("I ran the command " \o BT \o command \o BT
                     \o " and got this result:\n\n" \o Shown(result))
  ELSE IF result.ok
    THEN UserEntry("I ran the command: " \o command \o "\n\nOutput:\n" \o result.text)
  ELSE UserEntry("I tried to run the command: " \o command \o "\n\nError:\n" \o result.text)

\* the line typed at the execution prompt of a handler: roo-cli.ts runs the
\* candidate of that number, run-full-cli.js runs the first candidate on y / yes;
\* the command and its result are pushed as a user entry
AnswerCommandPrompt(answer, result) ==
  /\ \E i \in 0..Len(suspended) :
       LET h == HandlerAt(i)
       IN /\ h.pc = "confirmCommand"
          /\ Put(i, "awaiting", h.turn)
          /\ IF variant = "roo" THEN
               LET commandIndex == ParseInt(Trim(answer)) - 1
               IN IF commandIndex >= 0 /\ commandIndex < Len(h.turn.candidates) THEN
                    LET command == h.turn.candidates[commandIndex + 1]
                    IN /\ out' = <<"Executing: " \o command, Shown(result)>>
                       /\ executed' = Append(executed, command)
                       /\ chatHistory' = push(chatHistory,
                                                CommandEntry(variant, command, result))
                  ELSE out' = <<>> /\ chatHistory' = chatHistory /\ executed' = executed
             ELSE
               IF ToLower(answer) \in {"y", "yes"} THEN
                 LET commandToRun == h.turn.candidates[1]
                 IN /\ executed' = Append(executed, commandToRun)
                    /\ out' = IF result.ok
                                THEN <<"Executing: " \o commandToRun, "Output:", result.text>>
                                ELSE <<"Executing: " \o commandToRun,
                                       "Error executing command: " \o result.text>>
                    /\ chatHistory' = push(chatHistory,
                                             CommandEntry(variant, commandToRun, result))
               ELSE out' = <<>> /\ chatHistory' = chatHistory /\ executed' = executed
  /\ UNCHANGED <<variant, env, file, config, disk, pendingSwitch, cachedModels, lastLoad,
                 lastInput, loads, menu, exit>>

\* process start: initializeConfig() / initConfig(), then the session awaits input
Start ==
  /\ pc = "start"
  /\ LET r == Load(variant, config, file, env)
     IN /\ config' = r.config
        /\ file' = r.file
        /\ out' = r.out
        /\ pendingSwitch' = r.pending
        /\ lastLoad' = [r.migration EXCEPT !.file = IF r.migration.ran THEN @ ELSE r.file]
                         @@ [from |-> file, first |-> IF loads = 0 THEN file ELSE lastLoad.first]
  /\ pc' = "awaiting"
  /\ lastInput' = ""
  /\ loads' = loads + 1
  /\ UNCHANGED <<variant, env, chatHistory, disk, cachedModels, turn, menu, exit, executed,
                 suspended>>

\* run-full-cli.js initializeConfig: the getAvailableModels(newProvider).then callback
SwitchModelsThen ==
  /\ pc = "awaiting"
  /\ pendingSwitch # ""
  /\ \E fetched \in FetchedModels(pendingSwitch) :
       LET models == getAvailableModels(cachedModels, pendingSwitch, fetched)
           c2     == SuggestModel(config, models)
       IN /\ config' = c2
          /\ file' = Written(c2)
          /\ cachedModels' = Cached(cachedModels, pendingSwitch, fetched)
          /\ out' = <<"Switching to " \o pendingSwitch \o " with model " \o c2.model>>
  /\ pendingSwitch' = ""
  /\ UNCHANGED <<variant, env, chatHistory, pc, disk, lastLoad, lastInput, loads, turn,
                 menu, exit, executed, suspended>>

\* the provider a `/config apiProvider=` input names ("" otherwise)
ProviderAsked(input) ==
  LET command == Trim(Slice(input, 1))
      kv == IF StartsWith(command, "config")
              THEN KeyValueMatch(Trim(Slice(command, 6))) ELSE <<>>
  IN IF kv # <<>> /\ kv[1] = "apiProvider" THEN kv[2] ELSE ""

\* supportsVision of the model of that name in the list shown for a provider:
\* the table of roo-cli.ts, the fallback table of run-full-cli.js, or what
\* fetchModelsFromProvider derives from the id of a fetched model
SupportsVision(v, provider, models, name) ==
  IF v = "roo" THEN
    CASE provider \in {"anthropic", "openai", "bedrock", "gemini"} -> TRUE
      [] provider = "openrouter" ->
           name \notin {"mistral/mistral-large", "meta-llama/llama-3-70b-instruct"}
      [] provider = "groq" -> name = "claude-3-5-sonnet-20240620"
      [] OTHER -> FALSE
  ELSE IF models = FallbackModels(provider) THEN
    CASE provider \in {"anthropic", "openai"} -> TRUE
      [] provider = "groq" ->
           name \in {"llama-3.3-70b-versatile", "claude-3-5-sonnet-20240620"}
      [] OTHER -> FALSE
  ELSE
    CASE provider = "openai" ->
           IF Contains(name, "gpt-4") \/ Contains(name, "gpt-4o") THEN TRUE
           ELSE Contains(name, "gpt-3.5-turbo") /\ Contains(name, "vision")
      [] provider = "groq" ->
           ~Contains(name, "llama3-70b") /\ ~Contains(name, "mixtral")
             /\ Contains(name, "claude")
      [] OTHER -> FALSE

Bool(b) == IF b THEN "true" ELSE "false"

\* the menu a /models command opens: roo-cli.ts lists its table and asks at
\* once, run-full-cli.js starts showModelsMenu, which first loads the list
Menu(v, c) ==
  IF v = "roo"
    THEN [state |-> "asking", provider |-> c.apiProvider, models |-> RooModels(c.apiProvider)]
    ELSE [state |-> "loading", provider |-> c.apiProvider, models |-> <<>>]

\* one input line that starts with "/" is read and handled.  /exit ends the
\* process in roo-cli.ts and run-full-cli.js (process.exit(0)); the simple CLI
\* only closes its input, a request in flight still completes.  roo-cli.ts
\* waits for the answer to /models; run-full-cli.js calls showModelsMenu
\* without awaiting it and prompts for the next line at once.
Dispatch(input) ==
  /\ LineHandled
  /\ ~Immediate(pendingSwitch)
  /\ Len(chatHistory) < MaxHistory
  /\ StartsWith(input, "/")
  /\ \E fetched \in FetchedModels(ProviderAsked(input)) :
       LET R == Slash(variant, input,
                      Outcome(chatHistory, config, file, <<>>, disk, "awaiting", cachedModels),
                      fetched)
       IN /\ R.pc = "selectModel" => menu.state = ""
          /\ chatHistory' = R.chatHistory
          /\ config' = R.config
          /\ file' = R.file
          /\ out' = R.out
          /\ disk' = R.disk
          /\ cachedModels' = R.cachedModels
          /\ exit' = IF R.pc = "exited" THEN "command" ELSE exit
          /\ menu' = IF R.pc = "selectModel" THEN Menu(variant, config) ELSE menu
          /\ pc' = CASE R.pc = "exited" /\ variant = "simple" /\ pc # "awaiting" -> pc
                     [] R.pc = "exited" /\ ~(variant = "simple" /\ pc # "awaiting") -> "exited"
                     [] R.pc = "selectModel" /\ variant = "roo" -> "selectModel"
                     [] OTHER -> pc
          /\ suspended' = IF R.pc = "exited" /\ variant # "simple" THEN <<>> ELSE suspended
  /\ lastInput' = input
  /\ UNCHANGED <<variant, env, pendingSwitch, lastLoad, loads, turn, executed>>

\* run-full-cli.js showModelsMenu after `await getProviderModelsMetadata`: the
\* list is cached, printed, and the question for the model number is asked
ModelsMenuThen ==
  /\ exit = ""
  /\ menu.state = "loading"
  /\ \E fetched \in FetchedModels(menu.provider) :
       /\ menu' = [menu EXCEPT !.state = "asking",
                               !.models = getAvailableModels(cachedModels, menu.provider, fetched)]
       /\ cachedModels' = Cached(cachedModels, menu.provider, fetched)
  /\ out' = <<"Provider: " \o menu.provider, "Select a model by entering the number:">>
  /\ UNCHANGED <<variant, env, file, config, chatHistory, pc, disk, pendingSwitch, lastLoad,
                 lastInput, loads, turn, exit, executed, suspended>>

\* the line typed at the model prompt: a number of the list selects that model,
\* sets isVisionEnabled from it and saves the configuration
AnswerModelPrompt(answer) ==
  /\ exit = ""
  /\ menu.state = "asking"
  /\ \E modelNum \in {ParseInt(Trim(answer))} :
       IF modelNum > 0 /\ modelNum <= Len(menu.models) THEN
         \E selectedModel \in {menu.models[modelNum]} :
           \E supportsVision \in {SupportsVision(variant, menu.provider, menu.models,
                                                 selectedModel)} :
             LET c2 == Assign(Assign(config, "model", selectedModel), "isVisionEnabled",
                              Bool(supportsVision))
             IN /\ config' = c2
                /\ file' = Written(c2)
                /\ out' = <<"Model changed to: " \o selectedModel>>
       ELSE /\ config' = config
            /\ file' = file
            /\ out' = IF Trim(answer) # "" THEN <<"Invalid selection: " \o answer>> ELSE <<>>
  /\ menu' = NoMenu
  /\ pc' = IF pc = "selectModel" THEN "awaiting" ELSE pc
  /\ UNCHANGED <<variant, env, chatHistory, disk, pendingSwitch, cachedModels, lastLoad,
                 lastInput, loads, turn, exit, executed, suspended>>

\* run-full-cli.js reads the answers to its sub-prompts through a second
\* readline interface on process.stdin while the interface of the session
\* keeps its 'line' listener: a sub-prompt is open
PromptOpen == pc = "confirmCommand" \/ menu.state = "asking"

\* run-full-cli.js rl.on('line'): what the listener of the session does with a
\* line, whatever else reads the same line
MainLine(input, fetched) ==
  LET same == Outcome(chatHistory, config, file, <<>>, disk, "awaiting", cachedModels)
  IN IF Trim(input) = "" THEN same
     ELSE IF StartsWith(input, "/") THEN Slash(variant, input, same, fetched)
     ELSE IF ~Truthy(config.apiKey) THEN [same EXCEPT !.out = <<"API key not set.">>]
     ELSE [same EXCEPT !.chatHistory = push(chatHistory, UserEntry(input)),
                       !.pc = "processing"]

\* a line typed in run-full-cli.js while a sub-prompt is open (the execution
\* prompt of the latest handler, the model prompt): both interfaces read it.
\* The listener of the session handles it first, as any line; the callback of
\* rlTemp.question then takes the same line as the answer and the sub-prompt
\* completes.  /exit ends the process before the callback runs.
PromptLine(input, result) ==
  /\ variant = "full"
  /\ exit = ""
  /\ PromptOpen
  /\ ~Immediate(pendingSwitch)
  /\ \A i \in 1..Len(suspended) : suspended[i].pc # "confirmCommand"
  /\ \E fetched \in FetchedModels(ProviderAsked(input)) :
     \E M \in {MainLine(input, fetched)} :
     \E runs \in {M.pc # "exited" /\ pc = "confirmCommand"
                    /\ ToLower(input) \in {"y", "yes"}} :
     \E modelNum \in {IF M.pc # "exited" /\ menu.state = "asking"
                        THEN ParseInt(Trim(input)) ELSE -1} :
     \E selects \in {modelNum > 0 /\ modelNum <= Len(menu.models)} :
       /\ M.pc = "selectModel" => menu.state # "loading"
       /\ M.pc = "processing" /\ pc = "processing" => Len(suspended) < MaxSuspended
       /\ chatHistory' = IF runs
                           THEN push(M.chatHistory,
                                     CommandEntry(variant, turn.candidates[1], result))
                           ELSE M.chatHistory
       /\ executed' = IF runs THEN Append(executed, turn.candidates[1]) ELSE executed
       /\ config' = IF selects
                      THEN Assign(Assign(M.config, "model", menu.models[modelNum]),
                                  "isVisionEnabled",
                                  Bool(SupportsVision(variant, menu.provider, menu.models,
                                                      menu.models[modelNum])))
                      ELSE M.config
       /\ file' = IF selects THEN Written(config') ELSE M.file
       /\ out' = M.out
                   \o (IF ~runs THEN <<>>
                       ELSE IF result.ok
                         THEN <<"Executing: " \o turn.candidates[1], "Output:", result.text>>
                       ELSE <<"Executing: " \o turn.candidates[1],
                              "Error executing command: " \o result.text>>)
                   \o (IF selects THEN <<"Model changed to: " \o menu.models[modelNum]>>
                       ELSE IF M.pc # "exited" /\ menu.state = "asking" /\ Trim(input) # ""
                         THEN <<"Invalid selection: " \o input>>
                       ELSE <<>>)
       /\ disk' = M.disk
       /\ cachedModels' = M.cachedModels
       /\ exit' = IF M.pc = "exited" THEN "command" ELSE exit
       /\ menu' = IF M.pc = "selectModel" THEN Menu(variant, config)
                  ELSE IF M.pc = "exited" THEN menu
                  ELSE IF menu.state = "asking" THEN NoMenu ELSE menu
       /\ pc' = CASE M.pc = "exited"     -> "exited"
                  [] M.pc = "processing" -> "processing"
                  [] OTHER -> IF pc = "confirmCommand" THEN "awaiting" ELSE pc
       /\ turn' = IF M.pc = "processing"
                    THEN [NoTurn EXCEPT !.asked = isAskingForCommand(ToLower(input)),
                                        !.provider = config.apiProvider,
                                        !.handler = HandlerOf(variant, config.apiProvider),
                                        !.request = RequestOf(variant,
                                                      HandlerOf(variant, config.apiProvider),
                                                      config)]
                    ELSE turn
       /\ suspended' = IF M.pc = "exited" THEN <<>>
                       ELSE IF M.pc = "processing" /\ pc = "processing"
                         THEN Append(suspended, Current)
                       ELSE suspended
       /\ lastInput' = IF Trim(input) = "" THEN lastInput ELSE input
  /\ UNCHANGED <<variant, env, pendingSwitch, lastLoad, loads>>

\* what ends a session besides /exit: the signals, and the end of the input
Endings == {"SIGINT", "SIGTERM", "EOF"}

\* whether the program ends on e: run-full-cli.js exits in its SIGINT and SIGTERM
\* handlers and when its readline interface closes; roo-cli.ts exits in its
\* SIGTERM handler, its SIGINT handlers only print; the simple CLI installs no
\* handler, a signal kills it
Ends(v, e) ==
  CASE v = "full"   -> TRUE
    [] v = "roo"    -> e = "SIGTERM"
    [] OTHER        -> e \in {"SIGINT", "SIGTERM"}

\* the exit code of a process that ended by e ("command" is /exit or /quit):
\* process.exit(0) where the program itself exits, 128 + the signal's number
\* where the signal kills it
ExitCode(v, e) ==
  IF e = "command" \/ v # "simple" THEN 0
  ELSE IF e = "SIGINT" THEN 130 ELSE 143

\* a signal arrives, or the input ends, while the session runs
Signal(e) ==
  /\ e \in Endings
  /\ pc \notin {"start", "exited"}
  /\ exit = ""
  /\ e = "EOF" => variant = "full"
  /\ IF Ends(variant, e)
       THEN /\ exit' = e
            /\ pc' = "exited"
            /\ suspended' = <<>>
            /\ out' = IF variant = "simple" THEN <<>> ELSE <<"Goodbye!">>
       ELSE /\ out' = <<"Use /exit to quit the session.">>
            /\ UNCHANGED <<exit, pc, suspended>>
  /\ UNCHANGED <<variant, env, file, config, chatHistory, disk, pendingSwitch, cachedModels,
                 lastLoad, lastInput, loads, turn, menu, executed>>

\* the process ends and the program is started again: memory is lost, the
\* configuration file, the workspace and the environment stay
Restart ==
  /\ pc \in {"awaiting", "exited"}
  /\ ~Immediate(pendingSwitch)
  /\ loads < MaxLoads
  /\ pc' = "start"
  /\ config' = DEFAULT_CONFIG(variant, env)
  /\ chatHistory' = <<>>
  /\ out' = <<>>
  /\ pendingSwitch' = ""
  /\ cachedModels' = [p \in {} |-> <<>>]
  /\ lastInput' = ""
  /\ turn' = NoTurn
  /\ menu' = NoMenu
  /\ exit' = ""
  /\ executed' = <<>>
  /\ suspended' = <<>>
  /\ UNCHANGED <<variant, env, file, disk, lastLoad, loads>>

----------------------------------------------------------------------------
(* Initial states *)

NoLoad == NoMigration @@ [from |-> AbsentFile, first |-> AbsentFile]

InitDisk ==
  [p \in {".", "a.txt", "sub", "locked"} |->
     CASE p = "."      -> DirNode(<<Dirent("a.txt", FALSE), Dirent("sub", TRUE)>>)
       [] p = "a.txt"  -> FileNode("hello")
       [] p = "sub"    -> DirNode(<<>>)
       [] OTHER        -> [FileNode("secret") EXCEPT !.locked = TRUE]]

\* the state of a process that has not yet loaded its configuration
Fresh(v, e, f) ==
  /\ variant = v
  /\ env = e
  /\ file = f
  /\ config = DEFAULT_CONFIG(v, e)
  /\ chatHistory = <<>>
  /\ pc = "start"
  /\ out = <<>>
  /\ disk = InitDisk
  /\ pendingSwitch = ""
  /\ cachedModels = [p \in {} |-> <<>>]
  /\ lastLoad = NoLoad
  /\ lastInput = ""
  /\ loads = 0
  /\ turn = NoTurn
  /\ menu = NoMenu
  /\ exit = ""
  /\ executed = <<>>
  /\ suspended = <<>>

KeyValue(var) == "key-" \o var

\* environments: each API-key variable unset or set; the two the programs default
\* to may also hold a blank value
Environments ==
  [ANTHROPIC_API_KEY    : {"", " ", KeyValue("ANTHROPIC_API_KEY")},
   GROQ_API_KEY         : {"", " ", KeyValue("GROQ_API_KEY")},
   OPENAI_API_KEY       : {"", KeyValue("OPENAI_API_KEY")},
   OPENROUTER_API_KEY   : {"", KeyValue("OPENROUTER_API_KEY")},
   MISTRAL_API_KEY      : {"", KeyValue("MISTRAL_API_KEY")},
   GOOGLE_API_KEY       : {"", KeyValue("GOOGLE_API_KEY")},
   DISABLE_AUTO_UPGRADE : {"", "1"}]

\* a document a program wrote earlier: its defaults with a provider, a model and a key
Document(v, e, p, m, k) ==
  JsonRoundTrip(Merge(DEFAULT_CONFIG(v, e), [apiProvider |-> p, model |-> m, apiKey |-> k]))

StoredPairs ==
  {<<"groq", "llama-3-70b-8192">>, <<"groq", "llama3-70b-8192">>,
   <<"groq", "llama-3.3-70b-versatile">>, <<"groq", "mixtral-8x7b-32768">>,
   <<"anthropic", "claude-3-sonnet-20240229">>, <<"anthropic", "claude-3-opus-20240229">>,
   <<"anthropic", "llama-3-70b-8192">>, <<"openai", "gpt-4o">>,
   <<"openai", "llama-3-70b-8192">>, <<"openrouter", "openai/gpt-4o">>}

StoredFiles(v, e) ==
  {AbsentFile, MalformedFile} \cup
  {[kind |-> "json", doc |-> Document(v, e, pm[1], pm[2], k)] :
     pm \in StoredPairs, k \in {"", "stored-key"}}

----------------------------------------------------------------------------
(* Specification of the configuration resolver: every environment and stored
   file, process starts and restarts *)

InitLoad ==
  \E v \in Variants : \E e \in Environments : \E f \in StoredFiles(v, e) : Fresh(v, e, f)

NextLoad == Start \/ SwitchModelsThen \/ Restart

SpecLoad == InitLoad /\ [][NextLoad]_vars

----------------------------------------------------------------------------
(* Properties of the configuration resolver, under SpecLoad *)

\* the configuration has been loaded and no input line has been read yet
Loaded == pc = "awaiting" /\ lastInput = ""

\* the providers `/config apiProvider=` accepts that have one API-key variable
KeyedProviders(v) == {Providers(v)[i] : i \in 1..Len(Providers(v))} \ {"bedrock"}

\* the API-key variable of provider p is the only one that is set
OnlyKeySet(e, p) ==
  /\ Trim(e[EnvVarOf(p)]) # ""
  /\ \A x \in KeyVars \ {EnvVarOf(p)} : e[x] = ""

\* C1: on first run (no configuration file), for every supported provider P whose
\* API-key variable is the only provider key set, the configuration has
\* apiProvider = P, apiKey = the value of P's variable, and a model of P's list
\* (roo-cli.ts and run-full-cli.js)
C1_FirstRunSelectsProvider ==
  (variant \in {"roo", "full"} /\ Loaded /\ lastLoad.from.kind = "absent") =>
    \A p \in KeyedProviders(variant) :
      OnlyKeySet(env, p) =>
        /\ config.apiProvider = p
        /\ config.apiKey = env[EnvVarOf(p)]
        /\ SeqContains(KnownModels(variant, p), config.model)

\* the order in which the first-run branch of initializeConfig tries the providers
PriorityOrder(v) ==
  IF v = "roo" THEN <<"anthropic", "openai", "openrouter", "mistral", "groq">>
  ELSE FullKeyProviders

\* the API-key variable of provider p is set (to a non-empty string)
Present(e, p) == Truthy(e[EnvVarOf(p)])

\* the providers of the priority order whose variable is set, in that order
PresentProviders(v, e) == SelectSeq(PriorityOrder(v), LAMBDA p : Present(e, p))

\* the provider a first run under environment e selects
FirstRunProvider(v, e) == Load(v, DEFAULT_CONFIG(v, e), AbsentFile, e).config.apiProvider

\* e2 differs from e at most in variables of providers after position n of the order
SameUpTo(v, e, e2, n) ==
  \A i \in 1..n : e2[EnvVarOf(PriorityOrder(v)[i])] = e[EnvVarOf(PriorityOrder(v)[i])]

\* C21: on first run with the variables of several providers set, the provider
\* selected is the first of the priority order whose variable is set, the selection
\* is the same under every environment that differs only in variables of providers
\* later in the order, and the document written equals the configuration in effect
C21_FirstPresentWins ==
  (/\ variant \in {"roo", "full"}
   /\ Loaded
   /\ lastLoad.from.kind = "absent"
   /\ Len(PresentProviders(variant, env)) >= 2) =>
    /\ config.apiProvider = PresentProviders(variant, env)[1]
    /\ \A n \in 1..Len(PriorityOrder(variant)) :
         PriorityOrder(variant)[n] = config.apiProvider =>
           \A e2 \in Environments :
             SameUpTo(variant, env, e2, n) => FirstRunProvider(variant, e2) = config.apiProvider
    /\ file = Written(config)

\* C8: when the configuration file holds malformed JSON, initialization ends in
\* the awaiting-input state (it neither throws nor exits), a warning has been
\* logged, and the effective configuration equals the defaults
C8_MalformedFallsBack ==
  (lastLoad.from.kind = "malformed" /\ pc # "start") =>
    /\ pc = "awaiting"
    /\ \E i \in 1..Len(out) : StartsWith(out[i], "Error reading config")
    /\ config = DEFAULT_CONFIG(variant, env)

\* C8, its case: a session that started on a malformed file
C8_Witness ==
  /\ Loaded
  /\ lastLoad.from.kind = "malformed"
  /\ file = MalformedFile
  /\ Truthy(env["OPENAI_API_KEY"])

\* a persisted document {apiProvider: "groq", model: "llama-3-70b-8192"}
LegacyGroq(f) ==
  f.kind = "json" /\ f.doc.apiProvider = "groq" /\ f.doc.model = "llama-3-70b-8192"

\* the spellings of the Llama 3.3 identifier
Llama33 == {"llama3-3-70b-versatile", "llama-3.3-70b-versatile", "llama-3-3-70b-versatile"}

\* a non-groq document whose model id is the legacy groq id
ForeignLegacy(f) ==
  f.kind = "json" /\ f.doc.apiProvider # "groq" /\ f.doc.model = "llama-3-70b-8192"

\* C2: loading {apiProvider: "groq", model: "llama-3-70b-8192"} yields the Llama 3.3
\* identifier and rewrites the file with it before anything else uses the model
\* id; a second load changes neither the in-memory model nor the file; the model
\* id of a non-groq provider is not touched by the groq migration
C2_LegacyGroqMigrated ==
  (variant \in {"roo", "full"} /\ Loaded) =>
    /\ (loads = 1 /\ LegacyGroq(lastLoad.from)) =>
         /\ lastLoad.model \in Llama33
         /\ lastLoad.file.kind = "json" /\ lastLoad.file.doc.model = lastLoad.model
         /\ config.model \in Llama33
         /\ file.kind = "json" /\ file.doc.model = config.model
    /\ (loads = 2 /\ LegacyGroq(lastLoad.first)) =>
         /\ config.model = lastLoad.from.doc.model
         /\ file = lastLoad.from
    /\ ForeignLegacy(lastLoad.from) => lastLoad.model = lastLoad.from.doc.model

\* the identifier the groq migration of a program ends on for llama-3-70b-8192
MigratedGroqModel(v, e) ==
  IF v = "full" THEN "llama-3.3-70b-versatile"
  ELSE IF Truthy(e["DISABLE_AUTO_UPGRADE"]) THEN "llama3-70b-8192"
  ELSE "llama3-3-70b-versatile"

\* C2, amended: the migration step of the load rewrites llama-3-70b-8192 to the
\* program's own Llama 3.3 identifier (roo-cli.ts with DISABLE_AUTO_UPGRADE set
\* stops at llama3-70b-8192) and saves it before the model id is used; the loaded
\* model is that identifier as long as the provider stays groq; the migration of
\* a second load saves nothing and changes no model id; the model id of a
\* non-groq provider is not touched by the groq migration
C2_MigrationStep ==
  (variant \in {"roo", "full"} /\ Loaded) =>
    /\ (loads = 1 /\ LegacyGroq(lastLoad.from)) =>
         /\ lastLoad.model = MigratedGroqModel(variant, env)
         /\ lastLoad.saves >= 1
         /\ lastLoad.file.kind = "json" /\ lastLoad.file.doc.model = lastLoad.model
         /\ config.apiProvider = "groq" =>
              /\ config.model = lastLoad.model
              /\ file.kind = "json" /\ file.doc.model = lastLoad.model
    /\ (loads = 2 /\ LegacyGroq(lastLoad.first)) =>
         /\ lastLoad.saves = 0
         /\ lastLoad.model = lastLoad.from.doc.model
         /\ lastLoad.file = lastLoad.from
         /\ config.apiProvider = "groq" =>
              /\ config.model = lastLoad.from.doc.model
              /\ file = lastLoad.from
    /\ ForeignLegacy(lastLoad.from) => lastLoad.model = lastLoad.from.doc.model

\* C2, its case: the second load of a file whose legacy groq id was migrated
C2_Witness ==
  /\ Loaded
  /\ loads = 2
  /\ LegacyGroq(lastLoad.first)
  /\ lastLoad.from.doc.apiProvider = "groq"
  /\ lastLoad.from.doc.model \in Llama33
  /\ config.model = lastLoad.from.doc.model

\* the environment with the API-key variables of all providers but p unset
OwnKeyOnly(e, p) ==
  [x \in EnvVars |-> IF x \in {EnvVarOf(p), "DISABLE_AUTO_UPGRADE"} THEN e[x] ELSE ""]

\* the load kept the persisted provider, replaced apiKey by nothing but the value
\* of that provider's variable, persisted neither, and gave what it gives when no
\* other provider's variable is set
KeepsProvider ==
  LET from == lastLoad.from
      p    == from.doc.apiProvider
      own  == env[EnvVarOf(p)]
      e0   == OwnKeyOnly(env, p)
      r0   == Load(variant, DEFAULT_CONFIG(variant, e0), from, e0)
  IN /\ config.apiProvider = p
     /\ config.apiKey # from.doc.apiKey => (Truthy(own) /\ config.apiKey = own)
     /\ file.kind = "json"
     /\ file.doc.apiProvider = p
     /\ file.doc.apiKey = from.doc.apiKey
     /\ config = r0.config
     /\ file = r0.file

SwitchesProvider ==
  /\ variant = "full"
  /\ ~Truthy(KeyOf(env, lastLoad.from.doc.apiProvider))
  /\ Len(detectApiKeys(env)) > 0

----------------------------------------------------------------------------
(* Specification of /config: a few environments and stored files, one session
   of /config inputs *)

\* the values given to maxTokens
TokenValues == {"2048", "512"}

SetMaxTokens(N) == "/config maxTokens=" \o N

\* /config inputs that are configuration errors: an unknown key, an invalid value
\* of apiProvider or mode, text that is not key=value
ConfigErrorInputs ==
  {"/config foo=1", "/config apiProvider=bogus", "/config mode=bogus", "/config nonsense"}

ConfigInputs ==
  {SetMaxTokens(N) : N \in TokenValues} \cup ConfigErrorInputs \cup
  {"/config", "/config apiProvider=openai"}

ConfigEnvironments ==
  {e \in Environments :
     /\ e["DISABLE_AUTO_UPGRADE"] = ""
     /\ \A x \in KeyVars \ {"ANTHROPIC_API_KEY", "OPENAI_API_KEY"} : e[x] = ""
     /\ e["ANTHROPIC_API_KEY"] # " "}

ConfigFiles(v, e) ==
  {AbsentFile, MalformedFile,
   [kind |-> "json", doc |-> Document(v, e, "anthropic", "claude-3-opus-20240229", "stored-key")],
   [kind |-> "json", doc |-> Document(v, e, "groq", "mixtral-8x7b-32768", "")]}

InitConfig ==
  \E v \in Variants : \E e \in ConfigEnvironments : \E f \in ConfigFiles(v, e) : Fresh(v, e, f)

ConfigStep == \E input \in ConfigInputs : Dispatch(input)

NextConfig == Start \/ SwitchModelsThen \/ ConfigStep

SpecConfig == InitConfig /\ [][NextConfig]_vars

\* the step in which the dispatcher reads and handles the line `input`
DispatchOf(input) ==
  /\ pc = "awaiting"
  /\ lastInput' = input
  /\ pendingSwitch' = pendingSwitch
  /\ loads' = loads

\* the fields of document a other than k are fields of document b with the same value
SameButFor(a, b, k) ==
  \A x \in (DOMAIN a) \ {k} : x \in DOMAIN b /\ b[x] = a[x]

\* what a fresh start of the program loads from file f
FreshLoad(f) == Load(variant, DEFAULT_CONFIG(variant, env), f, env).config

\* C3: `/config maxTokens=N` changes only maxTokens, in memory and in the persisted
\* file (every other field of the persisted document is as before the command),
\* and a fresh load of the file yields maxTokens = N
C3_OnlyMaxTokensChanges ==
  [][\A N \in TokenValues :
       DispatchOf(SetMaxTokens(N)) =>
         /\ config' = Assign(config, "maxTokens", N)
         /\ file'.kind = "json"
         /\ file'.doc.maxTokens = N
         /\ file.kind = "json" => SameButFor(file.doc, file'.doc, "maxTokens")
         /\ FreshLoad(file').maxTokens = N]_vars

\* C3, amended: `/config maxTokens=N` changes only maxTokens in memory, rewrites
\* the persisted file as the whole in-memory configuration (its other fields are
\* those in memory, which the load may have made differ from the ones persisted
\* before), and a fresh load of the file yields maxTokens = N
C3_MaxTokensSetAndSaved ==
  [][\A N \in TokenValues :
       DispatchOf(SetMaxTokens(N)) =>
         /\ config' = Assign(config, "maxTokens", N)
         /\ file' = Written(config')
         /\ SameButFor(config, file'.doc, "maxTokens")
         /\ FreshLoad(file').maxTokens = N]_vars

\* C3, its case: maxTokens has been set over a file whose key the load had
\* replaced in memory
C3_Witness ==
  /\ lastInput = SetMaxTokens("2048")
  /\ pc = "awaiting"
  /\ config.maxTokens = "2048"
  /\ file = Written(config)
  /\ lastLoad.from.kind = "json"
  /\ lastLoad.from.doc.apiKey # config.apiKey

\* C9: a /config update that is a configuration error is answered with a message
\* and changes neither the in-memory configuration nor the persisted file
\* (roo-cli.ts and run-full-cli.js)
C9_ConfigErrorsChangeNothing ==
  [][\A input \in ConfigErrorInputs :
       (variant \in {"roo", "full"} /\ DispatchOf(input)) =>
         /\ out' # <<>>
         /\ config' = config
         /\ file' = file]_vars

----------------------------------------------------------------------------
(* Specification of the file commands and of unknown commands: one environment,
   first run, a small workspace *)

\* /ls inputs and the directory each names
ListInputs == {<<"/ls", ".">>, <<"/ls .", ".">>, <<"/ls sub", "sub">>,
               <<"/ls nope", "nope">>, <<"/ls a.txt", "a.txt">>}

\* /read inputs and the file each names
ReadInputs == {<<"/read a.txt", "a.txt">>, <<"/read nope", "nope">>,
               <<"/read locked", "locked">>}

\* /write inputs and the file each names
WriteInputs == {<<"/write n.txt hi", "n.txt">>, <<"/write locked hi", "locked">>}

\* inputs whose command text is none of the vocabulary
UnknownInputs == {"/bogus", "/readme", "/lsx"}

FileInputs ==
  {x[1] : x \in ListInputs \cup ReadInputs \cup WriteInputs} \cup UnknownInputs
    \cup {"/clear", "/help"}

FileEnvironment ==
  [x \in EnvVars |-> IF x = "ANTHROPIC_API_KEY" THEN KeyValue(x) ELSE ""]

InitFiles == \E v \in Variants : Fresh(v, FileEnvironment, AbsentFile)

FileStep == \E input \in FileInputs : Dispatch(input)

NextFiles == Start \/ FileStep

SpecFiles == InitFiles /\ [][NextFiles]_vars

\* C4: `/ls <dir>` on an existing directory prints exactly one line per directory
\* entry, tagged [DIR] for a directory and [FILE] otherwise, and appends exactly
\* one entry to chat history (roo-cli.ts, run-full-cli.js and the simple CLI)
C4_ListingLinePerEntry ==
  [][\A x \in ListInputs :
       (DispatchOf(x[1]) /\ ~ReaddirThrows(NodeAt(disk, x[2]))) =>
         /\ Lines(out') = Tagged(NodeAt(disk, x[2]).entries)
         /\ Len(chatHistory') = Len(chatHistory) + 1]_vars

\* C6: an input that starts with "/" and whose command text is not in the
\* vocabulary prints an error, leaves chat history and configuration unchanged
\* and returns the dispatcher to awaiting-input (roo-cli.ts and run-full-cli.js)
C6_UnknownCommandChangesNothing ==
  [][\A input \in UnknownInputs :
       (variant \in {"roo", "full"} /\ DispatchOf(input)) =>
         /\ out' = <<"Unknown command: " \o Slice(input, 1)>>
         /\ chatHistory' = chatHistory
         /\ config' = config
         /\ pc' = "awaiting"]_vars

\* the file operation of an input fails with an I/O error on disk d
OperationFails(x, d) ==
  IF x \in ListInputs THEN ReaddirThrows(NodeAt(d, x[2]))
  ELSE IF x \in ReadInputs THEN ReadThrows(NodeAt(d, x[2]))
  ELSE WriteThrows(NodeAt(d, x[2]))

\* C10: a /read, /write or /ls that fails with an I/O error shows the error and
\* leaves chat history unchanged; a successful one appends exactly one user
\* entry (roo-cli.ts and run-full-cli.js)
C10_FailedOperationKeepsHistory ==
  [][\A x \in ListInputs \cup ReadInputs \cup WriteInputs :
       (variant \in {"roo", "full"} /\ DispatchOf(x[1])) =>
         IF OperationFails(x, disk)
           THEN /\ Len(out') = 1 /\ StartsWith(out'[1], "Error")
                /\ chatHistory' = chatHistory
           ELSE /\ Len(chatHistory') = Len(chatHistory) + 1
                /\ SubSeq(chatHistory', 1, Len(chatHistory)) = chatHistory
                /\ chatHistory'[Len(chatHistory')].role = "user"]_vars

----------------------------------------------------------------------------
(* Specification of a chat turn: an input line, the provider's reply, the
   execution prompt *)

ReplyIntros == {"", "List them:\n"}
ReplyLanguages == {"", "bash", "sh"}
ReplyEndings == {"", "\nDone."}

\* replies whose only code is a fenced block holding the single line ls -la
FencedLsReplies ==
  {a \o Fence \o l \o "\nls -la\n" \o Fence \o z :
     a \in ReplyIntros, l \in ReplyLanguages, z \in ReplyEndings}

\* replies without a fenced block or an inline code span
ProseReplies == {"", "Hello there.", "ls lists the files of a directory.",
                 "Use the terminal to list files."}

\* replies with other code: an inline span, a block of several lines, a block and
\* spans that hold no listing command
OtherReplies ==
  {"Use " \o BT \o "ls -la" \o BT \o " to list.",
   Fence \o "bash\ncd sub\nls -la\n# done\n" \o Fence,
   "Try " \o BT \o "pwd" \o BT \o ".",
   Fence \o "\npwd\n" \o Fence \o " or " \o BT \o "ls" \o BT}

Replies == FencedLsReplies \cup ProseReplies \cup OtherReplies

ChatInputs == {"how do I list files", "hello"}

PromptAnswers == {"1", "y", "n"}

\* no provider key is set
NoKeyEnvironment == [x \in EnvVars |-> ""]

InitExtract ==
  \E v \in Variants : \E e \in {FileEnvironment, NoKeyEnvironment} : Fresh(v, e, AbsentFile)

\* a chat line typed while the session awaits input, no earlier line in flight
TurnStep == \E input \in ChatInputs : pc = "awaiting" /\ suspended = <<>> /\ ChatLine(input)

ReplyStep == \E text \in Replies : ProviderReplies(text)

AnswerStep == \E answer \in PromptAnswers : \E result \in ExecResults :
                AnswerCommandPrompt(answer, result)

NextExtract == Start \/ TurnStep \/ ReplyStep \/ AnswerStep

SpecExtract == InitExtract /\ [][NextExtract]_vars

\* the execution prompt is on the screen
PromptShown ==
  \E k \in 1..Len(out) :
    \/ StartsWith(out[k], "I found some commands in the response")
    \/ StartsWith(out[k], "Would you like me to run this command")

\* C5: the extraction, run on a reply whose only code is a fenced block holding
\* the single line ls -la, yields exactly the one candidate ls -la; a reply of
\* prose only yields no candidate and no execution prompt is shown
C5_FencedLineIsTheOneCandidate ==
  (variant \in {"roo", "full"} /\ turn.replied) =>
    /\ (turn.scanned /\ turn.reply \in FencedLsReplies) => turn.candidates = <<"ls -la">>
    /\ turn.reply \in ProseReplies =>
         /\ turn.candidates = <<>>
         /\ pc # "confirmCommand"
         /\ ~PromptShown

\* C5, its case: run-full-cli.js has scanned a reply with the fenced line and
\* offers the one command
C5_Witness ==
  /\ variant = "full"
  /\ turn.scanned
  /\ turn.reply \in FencedLsReplies
  /\ turn.candidates = <<"ls -la">>
  /\ pc = "confirmCommand"
  /\ PromptShown

----------------------------------------------------------------------------
(* Extraction from replies whose code spans several lines *)

\* a fenced block of two command lines without a language tag, the same block
\* tagged bash, an inline span broken over two lines, an inline span of one line
BlockReplies ==
  {Fence \o "\nls -la\ncat a.txt\n" \o Fence,
   Fence \o "bash\nls -la\ncat a.txt\n" \o Fence,
   "Use " \o BT \o "ls\n-la" \o BT \o " now",
   "Use " \o BT \o "ls -la" \o BT \o " now"}

BlockReplyStep == \E text \in BlockReplies : ProviderReplies(text)

NextBlocks == Start \/ TurnStep \/ BlockReplyStep \/ AnswerStep

SpecBlocks == InitExtract /\ [][NextBlocks]_vars

\* the list a line or a span must start with to become a candidate
AllowList(v) == IF v = "roo" THEN commandPrefixes ELSE ShellVerbs

\* C23: every candidate found in a reply whose code is a block of several lines
\* or an inline span is a single line that starts with an allow-listed prefix (a
\* block of several lines is never a candidate as a whole)
C23_CandidatesAreSingleLines ==
  (variant \in {"roo", "full"} /\ turn.scanned /\ turn.reply \in BlockReplies) =>
    \A k \in 1..Len(turn.candidates) :
      /\ ~Includes(turn.candidates[k], "\n")
      /\ StartsWithAny(turn.candidates[k], AllowList(variant))

----------------------------------------------------------------------------
(* The session: chat turns whose request succeeds or fails, lines typed while
   an earlier one is in flight, the model menu, the execution prompt, signals *)

\* keys for three providers are in the environment
SessionEnvironment ==
  [x \in EnvVars |->
     IF x \in {"ANTHROPIC_API_KEY", "GROQ_API_KEY", "MISTRAL_API_KEY"} THEN KeyValue(x) ELSE ""]

SessionInputs == {"/clear", "/quit"}

MenuInputs == {"/models", "/exit"}

ProviderInputs == {"/config apiProvider=groq", "/config apiProvider=mistral"}

\* a reply that offers two commands
TwoCommandReply == "Run " \o BT \o "ls" \o BT \o " or " \o BT \o "cat a.txt" \o BT \o "."

SessionReplies == {"Hello there.", TwoCommandReply}

CommandAnswers == {"1", "2", "1x", "0", "", "3", "y", "Yes", "n", " y"}

ModelAnswers == {"1", "2", "", "9", "abc", "1x"}

InitSession ==
  \E v \in Variants : \E e \in {SessionEnvironment, NoKeyEnvironment} : Fresh(v, e, AbsentFile)

ChatStep == \E input \in ChatInputs : ChatLine(input)

SessionSlashStep == \E input \in SessionInputs : Dispatch(input)

SessionReplyStep == \E text \in SessionReplies : ProviderReplies(text)

FailStep == \E how \in {"throws", "no message_stop"} : ProviderFails(how)

SessionAnswerStep == \E answer \in CommandAnswers : \E result \in ExecResults :
                       AnswerCommandPrompt(answer, result)

MenuStep == ModelsMenuThen

ModelStep == \E answer \in ModelAnswers : AnswerModelPrompt(answer)

SignalStep == \E e \in Endings : Signal(e)

NextSession ==
  \/ Start
  \/ ChatStep
  \/ SessionSlashStep
  \/ SessionReplyStep
  \/ FailStep
  \/ SessionAnswerStep

SpecSession == InitSession /\ [][NextSession]_vars

\* the step of a chat line typed while no API key is configured
NoKeyTurn == ~Truthy(config.apiKey) /\ \E input \in ChatInputs : ChatLine(input)

\* the step in which a provider request fails
RequestFails == \E how \in Failures(variant) : ProviderFails(how)

\* the step does not end the session
SessionGoesOn == exit' = exit /\ (exit = "" => pc' # "exited")

\* C11: when a chat turn fails with a provider error (the request fails, or no
\* API key is set), the error is printed, no assistant entry is added, the
\* history has grown by exactly the user's entry of that turn, and the session
\* goes on
C11_FailedTurnKeepsUserEntry ==
  [][/\ NoKeyTurn =>
          /\ chatHistory' = Append(chatHistory, UserEntry(lastInput'))
          /\ out' # <<>>
          /\ SessionGoesOn
     /\ RequestFails =>
          /\ chatHistory' = chatHistory
          /\ out' # <<>>
          /\ SessionGoesOn]_vars

\* a handler of an earlier line has not completed: it waits for the provider,
\* for the answer at the execution prompt, or its model menu is open
LineInFlight == pc # "awaiting" \/ suspended # <<>> \/ menu.state # ""

\* C12: at most one input line is processed at a time: a line is read and
\* dispatched only when the processing of every earlier line (provider round
\* trip, sub-prompt, command execution) has completed
C12_OneLineAtATime ==
  [][(ChatStep \/ SessionSlashStep) => ~LineInFlight]_vars

\* the answer is a confirmation at an execution prompt that lists n candidates:
\* the number of one of them in roo-cli.ts, y or yes in run-full-cli.js
Confirming(v, answer, n) ==
  IF v = "roo"
    THEN /\ Trim(answer) # ""
         /\ AllIn(Trim(answer), Digits)
         /\ ParseInt(Trim(answer)) \in 1..n
    ELSE ToLower(answer) \in {"y", "yes"}

\* the handlers that wait at their execution prompt
AtPrompt == {i \in 0..Len(suspended) : HandlerAt(i).pc = "confirmCommand"}

Range(seq) == {seq[k] : k \in 1..Len(seq)}

\* C15: a shell command is executed only in the step that answers an execution
\* prompt, only when the answer confirms, and it is one of the candidates that
\* prompt offers; an answer that does not confirm executes nothing
C15_ExecutesOnlyConfirmed ==
  [][/\ executed' # executed =>
          \E i \in AtPrompt : \E c \in Range(HandlerAt(i).turn.candidates) :
            /\ SessionAnswerStep
            /\ executed' = Append(executed, c)
            /\ c \in Range(extractCommands(HandlerAt(i).turn.reply))
                       \cup Range(commandsToRun(HandlerAt(i).turn.reply))
     /\ \A answer \in CommandAnswers : \A result \in ExecResults :
          (/\ \A i \in AtPrompt :
                ~Confirming(variant, answer, Len(HandlerAt(i).turn.candidates))
           /\ AnswerCommandPrompt(answer, result))
            => executed' = executed]_vars

RECURSIVE DeltasInOrder(_)
DeltasInOrder(stream) ==
  IF stream = <<>> THEN ""
  ELSE (IF Head(stream).type = "content_block_delta" THEN Head(stream).text ELSE "")
         \o DeltasInOrder(Tail(stream))

\* the step of a chat line that goes to the provider
RequestStep == Truthy(config.apiKey) /\ ChatStep

\* C17: a chat message that succeeds adds the user entry and then one
\* assistant entry whose text is the text chunks of the stream joined in the
\* order of their arrival; the reply is printed in the step that has read the
\* stream to its message_stop, not before
C17_AssistantTextIsTheStream ==
  [][/\ RequestStep => chatHistory' = Append(chatHistory, UserEntry(lastInput'))
     /\ SessionReplyStep =>
          LET entry == chatHistory'[Len(chatHistory')]
          IN /\ chatHistory' = Append(chatHistory, entry)
             /\ entry.role = "assistant"
             /\ out'[1] = "Assistant > "
             /\ variant = "roo" =>
                  /\ turn'.chunks # <<>>
                  /\ turn'.chunks[Len(turn'.chunks)].type = "message_stop"
                  /\ entry.content = DeltasInOrder(turn'.chunks)
                  /\ chatHistory[Len(chatHistory)] = UserEntry(lastInput)
     /\ (out' # out /\ out' # <<>> /\ out'[1] = "Assistant > ") => SessionReplyStep]_vars

\* C17, its case: roo-cli.ts has read a reply that came in two text chunks and
\* has pushed it after the user's message
C17_Witness ==
  /\ variant = "roo"
  /\ turn.replied
  /\ Len(turn.chunks) = 5
  /\ turn.chunks[2].text = "Hello "
  /\ turn.chunks[4].text = "there."
  /\ Len(chatHistory) = 2
  /\ chatHistory[1] = UserEntry("hello")
  /\ chatHistory[2] = AssistantEntry("Hello there.")

(* Progress of the dispatcher: every kind of input, requests that fail, a file
   that cannot be read, both sub-prompts; the provider, the model list and the
   user at a sub-prompt answer in the end *)

LiveInputs == {"/read missing.txt", "/models", "/quit"}

InitLive == \E v \in Variants : Fresh(v, SessionEnvironment, AbsentFile)

LiveChatStep == ChatLine("how do I list files")

LiveSlashStep == \E input \in LiveInputs : Dispatch(input)

\* a reply that offers one command
LiveReply == "Run " \o BT \o "ls" \o BT

LiveReplyStep == ProviderReplies(LiveReply)

LiveModelStep == \E answer \in {"1", ""} : AnswerModelPrompt(answer)

LiveAnswerStep == \E answer \in PromptAnswers : \E result \in ExecResults :
                    AnswerCommandPrompt(answer, result)

\* the provider call completes: with a reply, or with a failure
RequestCompletes == LiveReplyStep \/ FailStep

NextLive ==
  \/ Start
  \/ LiveChatStep
  \/ LiveSlashStep
  \/ LiveReplyStep
  \/ FailStep
  \/ LiveAnswerStep
  \/ MenuStep
  \/ LiveModelStep

SpecLive == InitLive /\ [][NextLive]_vars

FairLive ==
  /\ SpecLive
  /\ WF_vars(Start)
  /\ WF_vars(RequestCompletes)
  /\ WF_vars(LiveAnswerStep)
  /\ WF_vars(MenuStep)
  /\ WF_vars(LiveModelStep)

\* the dispatcher is busy with a line
Busy == exit = "" /\ (pc \in {"processing", "confirmCommand", "selectModel"} \/ menu.state # "")

\* the dispatcher awaits input and no sub-prompt is open, or the user has
\* ended the session
Idle == (pc = "awaiting" /\ menu.state = "") \/ exit # ""

\* the step of the command /exit or /quit
ExitCommand == \E input \in {"/exit", "/quit"} : Dispatch(input)

InitMenu == \E v \in {"roo", "full"} : Fresh(v, SessionEnvironment, AbsentFile)

MenuSlashStep == \E input \in MenuInputs : Dispatch(input)

NextMenu == Start \/ MenuSlashStep \/ MenuStep \/ ModelStep \/ SignalStep

SpecMenu == InitMenu /\ [][NextMenu]_vars

\* C14: the session ends only by the command /exit or /quit, with exit code 0;
\* an interrupt signal only prints a hint and leaves the session in the state
\* it was in
C14_ExitOnlyByCommand ==
  [][/\ (pc' = "exited" /\ pc # "exited") =>
          /\ ExitCommand
          /\ ExitCode(variant, exit') = 0
     /\ Signal("SIGINT") =>
          /\ out' # <<>>
          /\ UNCHANGED <<pc, exit, config, chatHistory, file, turn, menu, suspended>>]_vars

(* Chat turns after a change of provider *)

ProviderSlashStep == \E input \in ProviderInputs : Dispatch(input)

ProviderChatStep == pc = "awaiting" /\ suspended = <<>> /\ ChatLine("hello")

ProviderReplyStep == ProviderReplies("Hello there.")

NextProvider ==
  Start \/ ProviderSlashStep \/ ProviderChatStep \/ ProviderReplyStep

SpecProvider == InitSession /\ [][NextProvider]_vars

\* C18: a chat message goes to the adapter of the configured provider: for
\* every provider `/config apiProvider=` accepts, the handler that serves the
\* request is that provider's own and no other
C18_OwnHandler ==
  (turn.handler # "" /\ SeqContains(Providers(variant), turn.provider))
    => turn.handler = turn.provider

\* C19: after `/config apiProvider=P` has succeeded while P's API-key variable
\* is set, the active apiKey is the value of that variable
C19_KeyFollowsProvider ==
  [][\A p \in {"groq", "mistral"} :
       (/\ Dispatch("/config apiProvider=" \o p)
        /\ config'.apiProvider = p
        /\ Truthy(env[EnvVarOf(p)]))
         => config'.apiKey = env[EnvVarOf(p)]]_vars

----------------------------------------------------------------------------
(* Chat history within one session: chat turns, /clear, a file command, a
   configuration change that saves the configuration file *)

HistoryInputs == {"/clear", "/read a.txt", SetMaxTokens("512"), "/bogus"}

HistoryChatStep == ChatLine("how do I list files")

HistorySlashStep == \E input \in HistoryInputs : Dispatch(input)

HistoryReplyStep == ProviderReplies(LiveReply)

NextHistory ==
  Start \/ HistoryChatStep \/ HistorySlashStep \/ HistoryReplyStep \/ FailStep \/ LiveAnswerStep

SpecHistory == InitSession /\ [][NextHistory]_vars

IsPrefix(s, t) == Len(s) <= Len(t) /\ SubSeq(t, 1, Len(s)) = s

\* the keys under which a history could appear in the configuration file
HistoryKeys == {"chatHistory", "messages", "history"}

HistoryNotPersisted == file.kind = "json" => DOMAIN file.doc \cap HistoryKeys = {}

\* C20: every step other than /clear leaves the previous history as a prefix of
\* the new one, /clear leaves it empty, and the configuration file that is
\* written never holds the history
C20_HistoryAppendOnly ==
  [][/\ Dispatch("/clear") => chatHistory' = <<>>
     /\ ~Dispatch("/clear") => IsPrefix(chatHistory, chatHistory')
     /\ HistoryNotPersisted']_vars

\* a history of two entries beside a configuration file saved by /config during
\* the session
C20_Witness ==
  /\ Len(chatHistory) = 2
  /\ file.kind = "json"
  /\ file.doc.maxTokens = "512"

\* C26: every assistant entry in the history is immediately preceded by the
\* user entry of its turn: the history never starts with an assistant entry and
\* never holds two assistant entries in a row, also when /clear or another chat
\* line is entered while a request is in flight
C26_AssistantFollowsUser ==
  \A i \in 1..Len(chatHistory) :
    chatHistory[i].role = "assistant" =>
      /\ i > 1
      /\ chatHistory[i - 1] = UserEntry("how do I list files")

----------------------------------------------------------------------------
(* The request parameters of a chat turn: sessions in which maxTokens and
   temperature are set through /config before a chat line is read *)

RequestInputs == {SetMaxTokens("512"), "/config temperature=0.7", "/config apiProvider=groq"}

RequestSlashStep == \E input \in RequestInputs : pc = "awaiting" /\ Dispatch(input)

RequestChatStep == pc = "awaiting" /\ ChatLine("hello")

RequestReplyStep == variant # "roo" /\ ProviderReplies("Hello there.")

\* what the provider sends: two chunks with content around one without
GroqContents == <<"Hello ", "", "there.">>

GroqStep ==
  \/ GroqCreateMessage
  \/ GroqChunk(GroqContents)
  \/ \E fails \in BOOLEAN : GroqEnd(GroqContents, fails)

ConsumeStep == \E iterable \in BOOLEAN : StreamConsumed(iterable)

NextRequest ==
  Start \/ RequestSlashStep \/ RequestChatStep \/ RequestReplyStep \/ GroqStep
    \/ ConsumeStep

SpecRequest == InitSession /\ [][NextRequest]_vars

\* the provider answers or the request fails: a GroqHandler that can take a
\* step takes one (the client gives up on a request that stays without answer)
FairRequest == SpecRequest /\ WF_vars(GroqStep)

\* C22: the request of every chat turn carries the configured sampling
\* parameters: max_tokens is config.maxTokens and temperature is
\* config.temperature, as they were when the request was made
C22_RequestCarriesConfig ==
  [][(turn'.request # NoRequest /\ turn'.request # turn.request) =>
       /\ turn'.request.max_tokens = config.maxTokens
       /\ turn'.request.temperature = config.temperature]_vars

\* the chunks of the stream of a GroqHandler, until the consumer has read it:
\* deltas only while it is open; once ended, deltas and then one marker,
\* message_stop or the error chunk
StreamShape ==
  LET chunks == turn.chunks
      n      == Len(chunks)
  IN (turn.handler = "groq" /\ pc = "processing") =>
       IF turn.ended
         THEN /\ n > 0
              /\ chunks[n] = IF turn.failed THEN ErrorChunk ELSE MessageStop
              /\ \A i \in 1..(n - 1) : chunks[i].type = "content_block_delta"
         ELSE \A i \in 1..n : chunks[i].type = "content_block_delta"

\* C28: GroqHandler.createMessage always ends the stream; the last chunk
\* written before the end is the one terminal marker, message_stop when the
\* request completes and the error chunk when it fails, never both, and no text
\* delta follows it; the consumer of roo-cli.ts pushes an assistant entry only
\* when message_stop was among the chunks
C28_StreamEndsWithOneMarker ==
  /\ []StreamShape
  /\ [][(\E iterable \in BOOLEAN : StreamConsumed(iterable)) =>
          (chatHistory' # chatHistory =>
             /\ \E i \in 1..Len(turn.chunks) : turn.chunks[i] = MessageStop
             /\ chatHistory'
                  = Append(chatHistory,
                           AssistantEntry(Accumulate(turn.chunks).assistantResponse)))]_vars
  /\ (GroqStreaming ~> turn.ended)

\* a stream that completed has ended with message_stop after its two deltas
\* and has been read: its text is the last entry of the history
C28_Witness ==
  /\ turn.handler = "groq"
  /\ turn.ended
  /\ turn.chunks = <<TextDelta("Hello "), TextDelta("there."), MessageStop>>
  /\ chatHistory # <<>>
  /\ chatHistory[Len(chatHistory)] = AssistantEntry("Hello there.")

\* the answer, trimmed, is a number written in digits
IsNumber(answer) == Trim(answer) # "" /\ AllIn(Trim(answer), Digits)

\* C24: an answer to the model prompt that is a number n of the list sets
\* config.model to the n-th listed model and config.isVisionEnabled to that
\* model's supportsVision and saves the configuration; an empty answer, an answer
\* that is not a number, or a number outside the list leaves the configuration
\* and the persisted file as they were
C24_ModelSelection ==
  [][\A answer \in ModelAnswers :
       AnswerModelPrompt(answer) =>
         LET n == DigitsValue(Trim(answer))
         IN IF IsNumber(answer) /\ n >= 1 /\ n <= Len(menu.models)
              THEN /\ config'.model = menu.models[n]
                   /\ config'.isVisionEnabled =
                        Bool(SupportsVision(variant, menu.provider, menu.models,
                                            menu.models[n]))
                   /\ file' = Written(config')
              ELSE config' = config /\ file' = file]_vars

----------------------------------------------------------------------------
(* Lines typed at a sub-prompt: the execution prompt and the model prompt.
   roo-cli.ts has closed the interface of its loop before a sub-prompt opens;
   run-full-cli.js has not, there PromptLine is the step of such a line *)

SubPromptLines == {"y", "n", "1", "", "/help"}

PromptChatStep == ~PromptOpen /\ pc = "awaiting" /\ ChatLine("how do I list files")

PromptSlashStep == ~PromptOpen /\ pc = "awaiting" /\ Dispatch("/models")

PromptReplyStep == ProviderReplies(LiveReply)

RooAnswerStep ==
  /\ variant = "roo"
  /\ \E answer \in SubPromptLines :
       \/ \E result \in ExecResults : AnswerCommandPrompt(answer, result)
       \/ AnswerModelPrompt(answer)

PromptLineStep == \E input \in SubPromptLines : \E result \in ExecResults :
                    PromptLine(input, result)

NextPrompt ==
  \/ Start
  \/ PromptChatStep
  \/ PromptSlashStep
  \/ MenuStep
  \/ PromptReplyStep
  \/ RooAnswerStep
  \/ PromptLineStep

SpecPrompt == InitMenu /\ [][NextPrompt]_vars

\* the number of provider requests in flight
InFlight(p, s) ==
  (IF p = "processing" THEN 1 ELSE 0) + Cardinality({i \in 1..Len(s) : s[i].pc = "processing"})

\* the step answers a sub-prompt: an open prompt has its line and completes
AnswersSubPrompt ==
  \/ pc = "confirmCommand" /\ pc' # "confirmCommand"
  \/ menu.state = "asking" /\ menu'.state # "asking"

\* C25: a line typed in answer to a sub-prompt is consumed only by that
\* sub-prompt: the main input loop does not handle it as a slash command or as
\* a chat message, the history changes at most by the entry of the command the
\* answer confirmed, and no provider request starts
C25_AnswerOnlyForPrompt ==
  [][AnswersSubPrompt =>
       /\ lastInput' = lastInput
       /\ \/ chatHistory' = chatHistory
          \/ /\ executed' # executed
             /\ \E result \in ExecResults :
                  chatHistory' = Append(chatHistory,
                                        CommandEntry(variant, executed'[Len(executed')], result))
       /\ InFlight(pc', suspended') <= InFlight(pc, suspended)]_vars

----------------------------------------------------------------------------
(* Tool requests in roo-cli.ts: replies, with and without a shell command, in
   which parseAssistantMessage finds one or two tool requests; whether the mode
   allows a tool is open *)

ToolUse(name, file_path, content) == [name |-> name, file_path |-> file_path, content |-> content]

WriteA == ToolUse("write_to_file", "a.txt", "new text")

ToolRequests == {<<WriteA>>,
                 <<ToolUse("write_to_file", "locked", "x")>>,
                 <<ToolUse("read_file", "a.txt", ""), WriteA>>,
                 <<ToolUse("list_files", ".", "")>>,
                 <<ToolUse("browser_action", "", "")>>}

WriteAnswers == {"y", "Y", "n", "yes", "", " y"}

InitTools == Fresh("roo", SessionEnvironment, AbsentFile)

ToolChatStep == ChatLine("hello")

ToolReplyStep == \E text \in {"I will do that.", LiveReply} : \E toolUses \in ToolRequests :
                   ToolUseReply(text, toolUses)

ToolStep == \E allowed \in BOOLEAN : handleToolUse(allowed)

WriteAnswerStep == \E answer \in WriteAnswers : AnswerWritePrompt(answer)

NextTools ==
  \/ Start
  \/ ToolChatStep
  \/ ToolReplyStep
  \/ ToolStep
  \/ WriteAnswerStep
  \/ LiveAnswerStep

SpecTools == InitTools /\ [][NextTools]_vars

\* C27: in roo-cli.ts a write_to_file request writes only in the step that
\* answers its confirmation prompt with y; any other answer writes nothing and
\* pushes exactly one user entry saying the tool was rejected; a tool the mode
\* does not allow changes neither the files nor the history
C27_WriteNeedsConfirmation ==
  [][/\ disk' # disk =>
          /\ pc = "confirmWrite"
          /\ Head(turn.tools).name = "write_to_file"
          /\ \E answer \in {"y", "Y"} : AnswerWritePrompt(answer)
     /\ \A answer \in WriteAnswers \ {"y", "Y"} :
          AnswerWritePrompt(answer) =>
            /\ disk' = disk
            /\ chatHistory' = Append(chatHistory,
                 UserEntry("Tool write_to_file was rejected by the user."))
     /\ handleToolUse(FALSE) => disk' = disk /\ chatHistory' = chatHistory]_vars

\* the file of a confirmed write_to_file request has been written and the
\* result pushed
C27_Witness ==
  /\ NodeAt(disk, "a.txt").content = "new text"
  /\ chatHistory # <<>>
  /\ chatHistory[Len(chatHistory)]
       = UserEntry("Tool write_to_file result:\nFile written successfully to a.txt")

----------------------------------------------------------------------------
(* Provider switches through /config: stored documents whose model is or is
   not in the list of the provider switched to *)

SwitchProviders == {"groq", "anthropic", "openai", "mistral"}

SwitchInputs == {"/config apiProvider=" \o P : P \in SwitchProviders \cup {"bogus"}}

SwitchFiles(v, e) ==
  {AbsentFile,
   [kind |-> "json",
    doc |-> Document(v, e, "anthropic", "claude-3-5-sonnet-20240620", "stored-key")],
   [kind |-> "json", doc |-> Document(v, e, "openai", "my-own-model", "stored-key")]}

InitSwitch ==
  \E v \in {"roo", "full"} : \E f \in SwitchFiles(v, SessionEnvironment) :
    Fresh(v, SessionEnvironment, f)

SwitchStep == \E input \in SwitchInputs : Dispatch(input)

NextSwitch == Start \/ SwitchStep

SpecSwitch == InitSwitch /\ [][NextSwitch]_vars

\* the available-model list of provider P after a switch to it: the table of
\* roo-cli.ts, in run-full-cli.js what getAvailableModels answered and cached
AvailableAfter(P) == IF variant = "roo" THEN RooModels(P) ELSE cachedModels'[P]

\* C29: after a successful /config apiProvider=P the model is a member of P's
\* available-model list when that list is not empty: unchanged if it was a
\* member, the first model of the list otherwise; the persisted file holds the
\* same provider and model
C29_ModelFitsProvider ==
  [][\A P \in SwitchProviders :
       (Dispatch("/config apiProvider=" \o P) /\ out' = Updated("apiProvider", P)) =>
         /\ config'.apiProvider = P
         /\ AvailableAfter(P) # <<>> =>
              /\ SeqContains(AvailableAfter(P), config'.model)
              /\ config'.model = IF SeqContains(AvailableAfter(P), config.model)
                                   THEN config.model ELSE AvailableAfter(P)[1]
         /\ file'.kind = "json"
         /\ file'.doc.apiProvider = P
         /\ file'.doc.model = config'.model]_vars

\* a switch to groq has kept a model that both lists hold, and the file has both
C29_Witness ==
  /\ lastInput = "/config apiProvider=groq"
  /\ config.apiProvider = "groq"
  /\ config.model = "claude-3-5-sonnet-20240620"
  /\ file.kind = "json"
  /\ file.doc.model = "claude-3-5-sonnet-20240620"

----------------------------------------------------------------------------
(* The API key in the output of /config: sessions that set the key, list the
   configuration and give other /config inputs *)

SecretKeys == {"sk-one", "sk-two"}

KeyInputs ==
  {"/config apiKey=" \o k : k \in SecretKeys}
    \cup {"/config", "/config apikey=sk-one", "/config apiKey", SetMaxTokens("512"),
          "/config apiProvider=openai"}

InitKey ==
  \E v \in Variants : \E e \in {SessionEnvironment, NoKeyEnvironment} :
    \E f \in {AbsentFile,
              [kind |-> "json", doc |-> Document(v, e, "anthropic", "claude-3-opus-20240229",
                                                 "stored-key")]} :
      Fresh(v, e, f)

KeyStep == \E input \in KeyInputs : Dispatch(input)

NextKey == Start \/ KeyStep

SpecKey == InitKey /\ [][NextKey]_vars

\* what the dispatcher may print for `input` when the configuration is c
OutputsFor(c, input) ==
  {Slash(variant, input,
         Outcome(chatHistory, c, file, <<>>, disk, "awaiting", cachedModels), fetched).out :
     fetched \in FetchedModels(ProviderAsked(input))}

\* no line of `lines` holds the text k
Hidden(lines, k) == \A i \in 1..Len(lines) : ~Contains(lines[i], k)

\* C30: the value of the API key is never printed by /config: the listing shows
\* **** for a key that is set and (not set) for an empty one, the
\* acknowledgement of /config apiKey=... shows ****, and the output of every
\* /config input is the same for any two non-empty values of the key
C30_KeyNeverPrinted ==
  /\ [](pc = "awaiting" =>
          \A input \in KeyInputs : \A k1, k2 \in SecretKeys \cup {"stored-key"} :
            OutputsFor([config EXCEPT !.apiKey = k1], input)
              = OutputsFor([config EXCEPT !.apiKey = k2], input))
  /\ [][\A input \in KeyInputs :
          Dispatch(input) =>
            /\ Truthy(config.apiKey) => Hidden(out', config.apiKey)
            /\ Truthy(config'.apiKey) => Hidden(out', config'.apiKey)
            /\ input = "/config" =>
                 \E i \in 1..Len(out') :
                   out'[i] = "apiKey = "
                               \o (IF Truthy(config.apiKey) THEN "****" ELSE "(not set)")
            /\ (\E k \in SecretKeys : input = "/config apiKey=" \o k) =>
                 out' = <<"Configuration updated: apiKey = ****">>]_vars

\* the key has been set through /config and acknowledged with the mask
C30_Witness ==
  /\ lastInput = "/config apiKey=sk-two"
  /\ config.apiKey = "sk-two"
  /\ out = <<"Configuration updated: apiKey = ****">>

----------------------------------------------------------------------------
(* The whole program: every environment and stored file, every input of the
   specifications above *)

Inputs == ConfigInputs \cup FileInputs \cup SessionInputs \cup MenuInputs \cup ProviderInputs
            \cup RequestInputs \cup SwitchInputs \cup KeyInputs
            \cup {"/env", "/modes", "/mode code", "/exit"}

Init == InitLoad

SlashStep == \E input \in Inputs : Dispatch(input)

Next ==
  \/ Start
  \/ SwitchModelsThen
  \/ SlashStep
  \/ ChatStep
  \/ ReplyStep
  \/ FailStep
  \/ AnswerStep
  \/ MenuStep
  \/ ModelStep
  \/ SignalStep
  \/ Restart
  \/ GroqStep
  \/ ConsumeStep
  \/ ToolReplyStep
  \/ ToolStep
  \/ WriteAnswerStep
  \/ PromptLineStep

Spec == Init /\ [][Next]_vars

====
